---- MODULE Spec2Model ----
(***************************************************************************)
(* Model of the tag lifecycle, the sentence alignment and the adopt/undo   *)
(* workflow of the annotation tool.                                        *)
(*                                                                         *)
(* Texts are sequences of one-character strings.  A tag is a cell of the   *)
(* heap (the dictionary a TagModel wraps, plus its incoming-reference      *)
(* counter); a document is a text and a list of heap addresses.            *)
(***************************************************************************)
EXTENDS Integers, Sequences, FiniteSets, TLC

VARIABLES heap, text, tags, nextUuid, last, cm, cmd, rt, al

vars == <<heap, text, tags, nextUuid, last, cm, cmd, rt, al>>

---------------------------------------------------------------------------
(* Characters and Python string primitives                                 *)

Letters == {"a", "b", "c", "d", "t", "i", "j", "r", "T", "E", "U"}
Digits == {"0", "1", "2", "3", "4", "5", "6", "7", "8", "9"}
WordChars == Letters \cup Digits \cup {"_"}
SpaceChars == {" ", "\n"}

Min(a, b) == IF a < b THEN a ELSE b
Max(a, b) == IF a > b THEN a ELSE b

\* Python's normalisation of a slice bound i for a sequence of length n.
PyIdx(n, i) == IF i < 0 THEN Max(n + i, 0) ELSE Min(i, n)

\* s[a:b]
PySlice(s, a, b) ==
    LET lo == PyIdx(Len(s), a)
        hi == PyIdx(Len(s), b)
    IN IF lo >= hi THEN <<>> ELSE SubSeq(s, lo + 1, hi)

\* s[a:]
PyFrom(s, a) == PySlice(s, a, Len(s))

\* s[:b]
PyTo(s, b) == PySlice(s, 0, b)

\* str.find(c, start) for a one-character needle: 0-based index or -1.
RECURSIVE FindChar(_, _, _)
FindChar(s, c, start) ==
    IF start >= Len(s) THEN -1
    ELSE IF s[start + 1] = c THEN start
    ELSE FindChar(s, c, start + 1)

\* s[at:at+len(sub)] == sub, for at >= 0
StartsAt(s, sub, at) ==
    /\ at >= 0
    /\ at + Len(sub) <= Len(s)
    /\ SubSeq(s, at + 1, at + Len(sub)) = sub

\* str.find(sub, start): 0-based index or -1.
RECURSIVE FindSub(_, _, _)
FindSub(s, sub, start) ==
    IF start + Len(sub) > Len(s) THEN -1
    ELSE IF StartsAt(s, sub, start) THEN start
    ELSE FindSub(s, sub, start + 1)

\* End (exclusive, 0-based) of the maximal run of word characters from i.
RECURSIVE WordRunEnd(_, _)
WordRunEnd(s, i) ==
    IF i < Len(s) /\ s[i + 1] \in WordChars THEN WordRunEnd(s, i + 1) ELSE i

\* End (exclusive, 0-based) of the maximal run of whitespace from i.
RECURSIVE SpaceRunEnd(_, _)
SpaceRunEnd(s, i) ==
    IF i < Len(s) /\ s[i + 1] \in SpaceChars THEN SpaceRunEnd(s, i + 1) ELSE i

\* str.strip()
RECURSIVE RStrip(_)
RStrip(s) ==
    IF Len(s) > 0 /\ s[Len(s)] \in SpaceChars
    THEN RStrip(SubSeq(s, 1, Len(s) - 1)) ELSE s

LStripCount(s) == SpaceRunEnd(s, 0)

Strip(s) == RStrip(PyFrom(s, LStripCount(s)))

\* str(n) for a natural number n
RECURSIVE IntToStr(_)
IntToStr(n) ==
    LET d == CHOOSE c \in Digits :
                 c = <<"0", "1", "2", "3", "4", "5", "6", "7", "8", "9">>[(n % 10) + 1]
    IN IF n < 10 THEN <<d>> ELSE IntToStr(n \div 10) \o <<d>>

---------------------------------------------------------------------------
(* Tag schema (the configuration the controller answers from)              *)

IdKey == <<"i", "d">>
RefKey == <<"r">>

TagTypes == {"T", "E"}

\* get_id_name: the ID attribute's name per tag type; "" for unknown types
get_id_name(tag_type) ==
    IF tag_type = "T" THEN <<"i">>
    ELSE IF tag_type = "E" THEN <<"j">>
    ELSE <<>>

\* get_id_refs: the attributes of type ID or IDREF per tag type
get_id_refs(tag_type) ==
    IF tag_type = "T" THEN {<<"i">>}
    ELSE IF tag_type = "E" THEN {<<"j">>, RefKey}
    ELSE {}

---------------------------------------------------------------------------
(* Attribute dictionaries: insertion-ordered lists of <<key, value>>       *)

HasKey(attrs, k) == \E n \in 1..Len(attrs) : attrs[n][1] = k

KeyIndex(attrs, k) == CHOOSE n \in 1..Len(attrs) : attrs[n][1] = k

\* dict.get(k, default)
DictGet(attrs, k, default) ==
    IF HasKey(attrs, k) THEN attrs[KeyIndex(attrs, k)][2] ELSE default

\* dict[k] = v
DictSet(attrs, k, v) ==
    IF HasKey(attrs, k)
    THEN [attrs EXCEPT ![KeyIndex(attrs, k)] = <<k, v>>]
    ELSE Append(attrs, <<k, v>>)

\* the dictionary without key k
RECURSIVE DictDel(_, _)
DictDel(attrs, k) ==
    IF attrs = <<>> THEN <<>>
    ELSE IF Head(attrs)[1] = k THEN DictDel(Tail(attrs), k)
    ELSE <<Head(attrs)>> \o DictDel(Tail(attrs), k)

---------------------------------------------------------------------------
(* TagModel                                                                *)

\* TagModel.get_id
get_id(tag) == DictGet(tag.attributes, IdKey, <<>>)

\* key="value"
KeyValue(k, v) == k \o <<"=", "\"">> \o v \o <<"\"">>

RECURSIVE JoinAttrs(_)
JoinAttrs(attrs) ==
    IF attrs = <<>> THEN <<>>
    ELSE IF Len(attrs) = 1 THEN KeyValue(attrs[1][1], attrs[1][2])
    ELSE KeyValue(attrs[1][1], attrs[1][2]) \o <<" ">> \o JoinAttrs(Tail(attrs))

\* TagModel.__str__: the ID attribute first, then the others in map order
TagStr(tag) ==
    LET Joined(others, other_attrs) ==
            IF HasKey(tag.attributes, IdKey)
            THEN KeyValue(tag.id_name, DictGet(tag.attributes, IdKey, <<>>))
                 \o (IF others # <<>> THEN <<" ">> \o other_attrs ELSE <<>>)
            ELSE other_attrs
        Rendered(attributes_str) ==
            <<"<", tag.tag_type, " ">> \o attributes_str \o <<">">> \o tag.text
            \o <<"<", "/", tag.tag_type, ">">>
        Others(others) == Rendered(Joined(others, JoinAttrs(others)))
    IN Others(DictDel(tag.attributes, IdKey))

---------------------------------------------------------------------------
(* TagProcessor: edits of a text that holds tags as markup                 *)

\* an insert_tag_into_text that does not look at the text it replaces
insert_without_check(txt, tag) ==
    [ok |-> TRUE,
     text |-> PyTo(txt, tag.position) \o TagStr(tag)
              \o PyFrom(txt, tag.position + Len(tag.text))]

\* insert_tag_into_text: ValueError unless the tag's text stands at its position
insert_tag_into_text(txt, tag) ==
    LET position == tag.position
        tag_text == tag.text
    IN IF PySlice(txt, position, position + Len(tag_text)) # tag_text
       THEN [ok |-> FALSE, text |-> txt]
       ELSE [ok |-> TRUE,
             text |-> PyTo(txt, position) \o TagStr(tag)
                      \o PyFrom(txt, position + Len(tag_text))]

\* delete_tag_from_text: ValueError unless the tag's markup stands at its position
delete_tag_from_text(tag, txt) ==
    LET position == tag.position
        Deleted(tag_str) ==
            IF PySlice(txt, position, position + Len(tag_str)) # tag_str
            THEN [ok |-> FALSE, text |-> txt]
            ELSE [ok |-> TRUE,
                  text |-> PyTo(txt, position) \o tag.text
                           \o PyFrom(txt, position + Len(tag_str))]
    IN Deleted(TagStr(tag))

\* The lazy  .*?</\w+>  from index q (0-based): the first index at or after q
\* where "</" \w+ ">" starts, reached over characters other than newline ("."
\* does not match a newline here); -1 if there is none.
RECURSIVE ClosingTagFrom(_, _)
ClosingTagFrom(s, q) ==
    LET Closes(e) == e < Len(s) /\ s[e + 1] = ">"
    IN IF q + 4 > Len(s) THEN -1
       ELSE IF /\ s[q + 1] = "<"
               /\ s[q + 2] = "/"
               /\ s[q + 3] \in WordChars
               /\ Closes(WordRunEnd(s, q + 2))
            THEN q
       ELSE IF s[q + 1] = "\n" THEN -1
       ELSE ClosingTagFrom(s, q + 1)

\* The match of  <\w+\s*[^>]*>.*?</\w+>  starting exactly at index st (0-based):
\* its end (exclusive), or -1.
TagShapedMatchAt(s, st) ==
    LET Closed(q) == IF q = -1 THEN -1 ELSE WordRunEnd(s, q + 2) + 1
        Opened(gt) == IF gt = -1 THEN -1 ELSE Closed(ClosingTagFrom(s, gt + 1))
    IN IF ~(st + 2 <= Len(s) /\ s[st + 1] = "<" /\ s[st + 2] \in WordChars) THEN -1
       ELSE Opened(FindChar(s, ">", st + 2))

\* re.search of the tag-shaped pattern in s from index st on: <<start, end>> or <<-1, -1>>
RECURSIVE SearchTagShaped(_, _)
SearchTagShaped(s, st) ==
    LET Tried(e) == IF e # -1 THEN <<st, e>> ELSE SearchTagShaped(s, st + 1)
    IN IF st >= Len(s) THEN <<-1, -1>> ELSE Tried(TagShapedMatchAt(s, st))

\* update_tag: the first tag-shaped match at or after tag.position is replaced by
\* the tag's rendering; ValueError if there is no match
update_tag(txt, tag) ==
    LET position == tag.position
        Replaced(match) ==
            LET start_index == position + match[1]
                end_index == position + match[2]
            IN IF match[1] = -1
               THEN [ok |-> FALSE, text |-> txt]
               ELSE [ok |-> TRUE,
                     text |-> PyTo(txt, start_index) \o TagStr(tag)
                              \o PyFrom(txt, end_index)]
    IN Replaced(SearchTagShaped(PyFrom(txt, position), 0))

---------------------------------------------------------------------------
(* TagManager.  A heap cell is                                             *)
(*   [uuid, tag_type, attributes, position, text, id_name, references, rc] *)
(* uuid 0 stands for "no uuid key"; a reference is [kind, id, oid]: kind   *)
(* "str" with the raw ID string in id, or kind "tag" with the heap address *)
(* of the TagModel in oid.  rc is _incoming_references_count.              *)
(* Every operation returns ok = FALSE where the code raises, together with *)
(* the heap, tag list and text as the raise leaves them.                   *)

StrRef(id) == [kind |-> "str", id |-> id, oid |-> 0]
TagRef(oid) == [kind |-> "tag", id |-> <<>>, oid |-> oid]

\* the least element of a set of list indices, or 0 for the empty set
FirstOf(S) == IF S = {} THEN 0 ELSE CHOOSE n \in S : \A m \in S : n <= m

\* increment_reference_count
increment_reference_count(h, oid) == [h EXCEPT ![oid].rc = @ + 1]

\* _resolve_references, from the n-th entry of the references on
RECURSIVE ResolveFrom(_, _, _, _, _)
ResolveFrom(h, tgs, references, n, resolved) ==
    IF n > Len(references) THEN [ok |-> TRUE, heap |-> h, references |-> resolved]
    ELSE LET key == references[n][1]
             ref == references[n][2]
             Found(at) ==
                 IF at = 0
                 THEN ResolveFrom(h, tgs, references, n + 1, resolved)
                 ELSE ResolveFrom(increment_reference_count(h, tgs[at]), tgs,
                                  references, n + 1,
                                  DictSet(resolved, key, TagRef(tgs[at])))
         IN IF ref.kind = "str"
            THEN Found(FirstOf({j \in 1..Len(tgs) : get_id(h[tgs[j]]) = ref.id}))
            \* a TagModel as reference: get_equivalent_uuids and
            \* self._comparison_model are both undefined, the lookup raises
            ELSE [ok |-> FALSE, heap |-> h, references |-> resolved]

_resolve_references(h, tgs, references) == ResolveFrom(h, tgs, references, 1, <<>>)

\* _update_positions, from the n-th tag of the list on
RECURSIVE UpdatePositionsFrom(_, _, _, _, _)
UpdatePositionsFrom(h, tgs, n, start_position, offset) ==
    IF n > Len(tgs) THEN h
    ELSE UpdatePositionsFrom(
             IF h[tgs[n]].position > start_position
             THEN [h EXCEPT ![tgs[n]].position = @ + offset] ELSE h,
             tgs, n + 1, start_position, offset)

_update_positions(h, tgs, start_position, offset) ==
    UpdatePositionsFrom(h, tgs, 1, start_position, offset)

\* the group ([a-zA-Z]+) of re.match(r"([a-zA-Z]+)(\d+)", old_id), or "" without a match
RECURSIVE LetterRunEnd(_, _)
LetterRunEnd(s, i) ==
    IF i < Len(s) /\ s[i + 1] \in Letters THEN LetterRunEnd(s, i + 1) ELSE i

IdPrefix(old_id) ==
    LET Group(e) ==
            IF e > 0 /\ e < Len(old_id) /\ old_id[e + 1] \in Digits
            THEN SubSeq(old_id, 1, e) ELSE <<>>
    IN Group(LetterRunEnd(old_id, 0))

\* first loop of _update_ids: sequential IDs for the tags of tag_type
RECURSIVE UpdateIdsPass1(_, _, _, _, _, _, _)
UpdateIdsPass1(h, tgs, txt, tag_type, n, offset, current_id) ==
    IF n > Len(tgs) THEN [ok |-> TRUE, heap |-> h, text |-> txt]
    ELSE LET oid == tgs[n]
             h1 == [h EXCEPT ![oid].position = @ + offset]
         IN IF h1[oid].tag_type # tag_type
            THEN UpdateIdsPass1(h1, tgs, txt, tag_type, n + 1, offset, current_id)
            ELSE LET Updated(old_id, new_id, h2, upd) ==
                         IF ~upd.ok THEN [ok |-> FALSE, heap |-> h2, text |-> txt]
                         ELSE UpdateIdsPass1(h2, tgs, upd.text, tag_type, n + 1,
                                             offset + Len(new_id) - Len(old_id),
                                             current_id + 1)
                     SetId(old_id, new_id, h2) ==
                         Updated(old_id, new_id, h2, update_tag(txt, h2[oid]))
                     NewId(old_id, new_id) ==
                         SetId(old_id, new_id,
                               [h1 EXCEPT ![oid].attributes = DictSet(@, IdKey, new_id)])
                     OldId(old_id) ==
                         NewId(old_id, IdPrefix(old_id) \o IntToStr(current_id))
                     GetId(id) == OldId(IF id = <<>> THEN <<"0">> ELSE id)
                 IN GetId(get_id(h1[oid]))

\* the inner loop of the second pass: the attributes that are references take
\* the referenced tag's current id
RECURSIVE UpdateRefAttrs(_, _, _, _)
UpdateRefAttrs(h, oid, k, offset) ==
    IF k > Len(h[oid].attributes) THEN [heap |-> h, offset |-> offset]
    ELSE LET attribute_name == h[oid].attributes[k][1]
             old_ref_id == h[oid].attributes[k][2]
             references == h[oid].references
         IN IF ~HasKey(references, attribute_name)
            THEN UpdateRefAttrs(h, oid, k + 1, offset)
            ELSE LET NewRefId(new_ref_id) ==
                         UpdateRefAttrs(
                             [h EXCEPT ![oid].attributes[k] = <<attribute_name, new_ref_id>>],
                             oid, k + 1, offset + Len(new_ref_id) - Len(old_ref_id))
                 IN NewRefId(get_id(h[DictGet(references, attribute_name, TagRef(0)).oid]))

\* second loop of _update_ids: reference attributes
RECURSIVE UpdateIdsPass2(_, _, _, _, _)
UpdateIdsPass2(h, tgs, txt, n, offset) ==
    IF n > Len(tgs) THEN [ok |-> TRUE, heap |-> h, text |-> txt]
    ELSE LET oid == tgs[n]
             h1 == [h EXCEPT ![oid].position = @ + offset]
         IN IF h1[oid].references = <<>>
            THEN UpdateIdsPass2(h1, tgs, txt, n + 1, offset)
            ELSE LET Updated(r, upd) ==
                         IF ~upd.ok THEN [ok |-> FALSE, heap |-> r.heap, text |-> txt]
                         ELSE UpdateIdsPass2(r.heap, tgs, upd.text, n + 1, r.offset)
                     Referenced(r) == Updated(r, update_tag(txt, r.heap[oid]))
                 IN Referenced(UpdateRefAttrs(h1, oid, 1, offset))

\* _update_ids
_update_ids(h, tgs, txt, tag_type) ==
    LET Second(p1) == IF ~p1.ok THEN p1 ELSE UpdateIdsPass2(p1.heap, tgs, p1.text, 1, 0)
    IN Second(UpdateIdsPass1(h, tgs, txt, tag_type, 1, 0, 1))

\* list.insert(index, x) for a 1-based index
InsertAt(seq, n, x) == SubSeq(seq, 1, n - 1) \o <<x>> \o SubSeq(seq, n, Len(seq))

\* del list[index] for a 1-based index
RemoveAt(seq, n) == SubSeq(seq, 1, n - 1) \o SubSeq(seq, n + 1, Len(seq))

Result(ok, err, h, txt, tgs) ==
    [ok |-> ok, err |-> err, heap |-> h, text |-> txt, tags |-> tgs]

\* add_tag for the tag data in cell oid; fresh is the uuid4 drawn for it
add_tag(h, txt, tgs, oid, fresh) ==
    LET h0 == IF h[oid].uuid = 0 THEN [h EXCEPT ![oid].uuid = fresh] ELSE h
        Updated(tgs1, upd) ==
            IF ~upd.ok THEN Result(FALSE, "no_tag_at_position", upd.heap, txt, tgs1)
            ELSE Result(TRUE, "", upd.heap, upd.text, tgs1)
        Shifted(new_tag, tgs1, ins, h2) ==
            Updated(tgs1, _update_ids(h2, tgs1, ins.text, new_tag.tag_type))
        Inserted(h1, new_tag, tgs1, ins) ==
            IF ~ins.ok THEN Result(FALSE, "text_mismatch", h1, txt, tgs1)
            ELSE Shifted(new_tag, tgs1, ins,
                         _update_positions(h1, tgs1, new_tag.position,
                                           Len(TagStr(new_tag)) - Len(new_tag.text)))
        Listed(h1, new_tag, tgs1) ==
            Inserted(h1, new_tag, tgs1, insert_tag_into_text(txt, new_tag))
        Placed(h1, new_tag, at) ==
            Listed(h1, new_tag, IF at = 0 THEN Append(tgs, oid) ELSE InsertAt(tgs, at, oid))
        \* new_tag = TagModel(tag_data): the counter of the new object is 0
        Created(h1) ==
            Placed(h1, h1[oid],
                   FirstOf({j \in 1..Len(tgs) : h1[oid].position < h1[tgs[j]].position}))
        Resolved(res) ==
            IF ~res.ok THEN Result(FALSE, "reference", res.heap, txt, tgs)
            ELSE Created([res.heap EXCEPT ![oid].references = res.references,
                                          ![oid].rc = 0])
    IN Resolved(_resolve_references(h0, tgs, h0[oid].references))

\* the loop over tag.get_references() in delete_tag; decrement_reference_count
\* raises when the counter would fall below zero
RECURSIVE DecrementFrom(_, _, _)
DecrementFrom(h, references, n) ==
    IF n > Len(references) THEN [ok |-> TRUE, heap |-> h]
    ELSE LET target == references[n][2].oid
         IN IF h[target].rc - 1 < 0 THEN [ok |-> FALSE, heap |-> h]
            ELSE DecrementFrom([h EXCEPT ![target].rc = @ - 1], references, n + 1)

\* a delete_tag that takes the first tag when no tag has the uuid
delete_tag_or_first(h, txt, tgs, tag_uuid) ==
    LET Updated(tgs1, upd) ==
            IF ~upd.ok THEN Result(FALSE, "no_tag_at_position", upd.heap, txt, tgs1)
            ELSE Result(TRUE, "", upd.heap, upd.text, tgs1)
        Shifted(tag, tgs1, del, h2) ==
            Updated(tgs1, _update_ids(h2, tgs1, del.text, tag.tag_type))
        Deleted(tag, dec, tgs1, del) ==
            IF ~del.ok THEN Result(FALSE, "tag_not_found", dec.heap, txt, tgs1)
            ELSE Shifted(tag, tgs1, del,
                         _update_positions(dec.heap, tgs1, tag.position,
                                           Len(tag.text) - Len(TagStr(tag))))
        Released(at, tag, dec) ==
            IF ~dec.ok THEN Result(FALSE, "reference_count", dec.heap, txt, tgs)
            ELSE Deleted(tag, dec, RemoveAt(tgs, at), delete_tag_from_text(tag, txt))
        Found(at) ==
            IF at = 0 THEN Result(FALSE, "unknown_tag", h, txt, tgs)
            ELSE Released(at, h[tgs[at]], DecrementFrom(h, h[tgs[at]].references, 1))
        First(at) == Found(IF at = 0 /\ tgs # <<>> THEN 1 ELSE at)
    IN First(FirstOf({j \in 1..Len(tgs) : h[tgs[j]].uuid = tag_uuid}))

\* delete_tag
delete_tag(h, txt, tgs, tag_uuid) ==
    LET Updated(tgs1, upd) ==
            IF ~upd.ok THEN Result(FALSE, "no_tag_at_position", upd.heap, txt, tgs1)
            ELSE Result(TRUE, "", upd.heap, upd.text, tgs1)
        Shifted(tag, tgs1, del, h2) ==
            Updated(tgs1, _update_ids(h2, tgs1, del.text, tag.tag_type))
        Deleted(tag, dec, tgs1, del) ==
            IF ~del.ok THEN Result(FALSE, "tag_not_found", dec.heap, txt, tgs1)
            ELSE Shifted(tag, tgs1, del,
                         _update_positions(dec.heap, tgs1, tag.position,
                                           Len(tag.text) - Len(TagStr(tag))))
        Released(at, tag, dec) ==
            IF ~dec.ok THEN Result(FALSE, "reference_count", dec.heap, txt, tgs)
            ELSE Deleted(tag, dec, RemoveAt(tgs, at), delete_tag_from_text(tag, txt))
        Found(at) ==
            IF at = 0 THEN Result(FALSE, "unknown_tag", h, txt, tgs)
            ELSE Released(at, h[tgs[at]], DecrementFrom(h, h[tgs[at]].references, 1))
    IN Found(FirstOf({j \in 1..Len(tgs) : h[tgs[j]].uuid = tag_uuid}))

\* an edit_tag whose add_tag draws a new uuid for the data
edit_tag_with_new_uuid(h, txt, tgs, tag_uuid, oid) ==
    LET Deleted(del) ==
            IF ~del.ok THEN del
            ELSE add_tag(del.heap, del.text, del.tags, oid, tag_uuid + 1)
    IN Deleted(delete_tag(h, txt, tgs, tag_uuid))

\* edit_tag: delete_tag, then add_tag of the new data under the same uuid
edit_tag(h, txt, tgs, tag_uuid, oid) ==
    LET h0 == IF h[oid].uuid = 0 THEN [h EXCEPT ![oid].uuid = tag_uuid] ELSE h
        Deleted(del) ==
            IF ~del.ok THEN del
            ELSE add_tag(del.heap, del.text, del.tags, oid, tag_uuid)
    IN Deleted(delete_tag(h0, txt, tgs, tag_uuid))

\* is_deletion_prohibited, for a uuid of the document
is_deletion_prohibited(h, tgs, uuid) ==
    h[tgs[FirstOf({j \in 1..Len(tgs) : h[tgs[j]].uuid = uuid})]].rc > 0

\* get_uuid_from_id: the uuid of the first tag with that ID, 0 when it raises
get_uuid_from_id(h, tgs, tag_id) ==
    LET Found(at) == IF at = 0 THEN 0 ELSE h[tgs[at]].uuid
    IN Found(FirstOf({j \in 1..Len(tgs) : get_id(h[tgs[j]]) = tag_id}))

---------------------------------------------------------------------------
(* Bounds and inputs of the tag-manager specifications                     *)

\* heap cells ever allocated (one per addTag / editTag)
MaxObjs == 3

\* the document's text before any tag is added
BaseText == <<"a", "b", "c">>

NoId == <<"n", "o", "n", "e">>

\* what a caller may give as the id of a new tag: NoId stands for tag data
\* without an "id" attribute; the others are the attribute's value
IdChoices == {NoId, <<>>, <<"t", "1", "0">>}

\* the characters of s outside every tag span (0-based indices)
RECURSIVE PlainFrom(_, _)
PlainFrom(s, i) ==
    IF i >= Len(s) THEN {}
    ELSE IF s[i + 1] = "<" /\ TagShapedMatchAt(s, i) # -1
         THEN PlainFrom(s, TagShapedMatchAt(s, i))
         ELSE {i} \cup PlainFrom(s, i + 1)

PlainPositions(s) == PlainFrom(s, 0)

\* the IDs a reference may name: those of the document's tags (the form leaves
\* an empty field out of the tag data)
IdsOf(h, tgs) == {get_id(h[tgs[j]]) : j \in 1..Len(tgs)}

\* the tag data a caller hands to addTag / editTag
TagData(tag_type, idc, ref, position, tag_text) ==
    [uuid |-> 0,
     tag_type |-> tag_type,
     attributes |-> (IF idc = NoId THEN <<>> ELSE << <<IdKey, idc>> >>)
                    \o (IF ref = NoId THEN <<>> ELSE << <<RefKey, ref>> >>),
     position |-> position,
     text |-> tag_text,
     id_name |-> get_id_name(tag_type),
     references |-> IF ref = NoId THEN <<>> ELSE << <<RefKey, StrRef(ref)>> >>,
     rc |-> 0]

RefChoices(tag_type, h, tgs) ==
    IF RefKey \in get_id_refs(tag_type)
    THEN {NoId} \cup (IdsOf(h, tgs) \ {<<>>}) ELSE {NoId}

\* What the last operation was: its kind, whether it returned (ok) or raised
\* (err), the cell and uuid it was about, the id its tag data carried, and
\* whether every operation so far returned.
NoLast ==
    [op |-> "init", ok |-> TRUE, err |-> "", oid |-> 0, uuid |-> 0, id |-> NoId,
     allok |-> TRUE]

Outcome(op, r, oid, uuid, id) ==
    [op |-> op, ok |-> r.ok, err |-> r.err, oid |-> oid, uuid |-> uuid, id |-> id,
     allok |-> last.allok /\ r.ok]

InitDoc ==
    /\ heap = <<>>
    /\ text = BaseText
    /\ tags = <<>>
    /\ nextUuid = 1
    /\ last = NoLast

Idle == [phase |-> "off"]

Init ==
    /\ InitDoc
    /\ cm = Idle /\ cmd = Idle /\ rt = Idle /\ al = Idle

\* A cell that no tag of the list reaches any more is garbage: nothing reads it
\* again, and the heap keeps a cleared cell in its place.
Dead ==
    [uuid |-> 0, tag_type |-> "", attributes |-> <<>>, position |-> 0, text |-> <<>>,
     id_name |-> <<>>, references |-> <<>>, rc |-> 0]

RefTargets(h, R) ==
    UNION {{h[o].references[n][2].oid : n \in 1..Len(h[o].references)} : o \in R}

RECURSIVE ReachFrom(_, _, _)
ReachFrom(h, R, n) ==
    IF n = 0 THEN R ELSE ReachFrom(h, (R \cup RefTargets(h, R)) \ {0}, n - 1)

Collect(h, roots) ==
    LET Swept(live) == [o \in 1..Len(h) |-> IF o \in live THEN h[o] ELSE Dead]
    IN Swept(ReachFrom(h, roots, Len(h)))

Range(seq) == {seq[n] : n \in 1..Len(seq)}

Apply(r) ==
    /\ heap' = Collect(r.heap, Range(r.tags))
    /\ text' = r.text
    /\ tags' = r.tags

\* TagManager.add_tag called with fresh tag data
AddTag ==
    /\ Len(heap) < MaxObjs
    /\ \E tag_type \in TagTypes, position \in PlainPositions(text), idc \in IdChoices :
         \E ref \in RefChoices(tag_type, heap, tags) :
           LET oid == Len(heap) + 1
               data == TagData(tag_type, idc, ref, position, <<text[position + 1]>>)
               Added(r) ==
                   /\ Apply(r)
                   /\ nextUuid' = nextUuid + 1
                   /\ last' = Outcome("add", r, oid, nextUuid, idc)
           IN Added(add_tag(Append(heap, data), text, tags, oid, nextUuid))
    /\ UNCHANGED <<cm, cmd, rt, al>>

\* TagManager.delete_tag
DeleteTag ==
    /\ \E j \in 1..Len(tags) :
           LET Deleted(r) ==
                   /\ Apply(r)
                   /\ last' = Outcome("delete", r, tags[j], heap[tags[j]].uuid, NoId)
           IN Deleted(delete_tag(heap, text, tags, heap[tags[j]].uuid))
    /\ UNCHANGED <<nextUuid, cm, cmd, rt, al>>

\* TagManager.edit_tag: new attributes for the tag at its place
EditTag ==
    /\ Len(heap) < MaxObjs
    /\ \E j \in 1..Len(tags), idc \in IdChoices :
         \E ref \in RefChoices(heap[tags[j]].tag_type, heap, tags) :
           LET old == heap[tags[j]]
               oid == Len(heap) + 1
               data == TagData(old.tag_type, idc, ref, old.position, old.text)
               Edited(r) ==
                   /\ Apply(r)
                   /\ last' = Outcome("edit", r, oid, old.uuid, idc)
           IN Edited(edit_tag(Append(heap, data), text, tags, old.uuid, oid))
    /\ UNCHANGED <<nextUuid, cm, cmd, rt, al>>

Next == AddTag \/ DeleteTag \/ EditTag

Spec == Init /\ [][Next]_vars

---------------------------------------------------------------------------
(* Properties of the tag manager                                           *)

\* the tag list is in nondecreasing order of position
SortedByPosition(h, tgs) ==
    \A i, j \in 1..Len(tgs) : i < j => h[tgs[i]].position <= h[tgs[j]].position

\* every tag's rendering stands in the text at the tag's position
MarkupInPlace(h, txt, tgs) ==
    \A j \in 1..Len(tgs) : StartsAt(txt, TagStr(h[tgs[j]]), h[tgs[j]].position)

\* the tags of the list whose resolved references include the tag with this uuid
ReferencingTags(h, tgs, uuid) ==
    {j \in 1..Len(tgs) :
        \E n \in 1..Len(h[tgs[j]].references) :
            h[h[tgs[j]].references[n][2].oid].uuid = uuid}

\* C3: after any sequence of addTag, editTag and deleteTag that all returned,
\* every tag's incoming reference count is the number of tags of the document
\* whose resolved references include it, and is_deletion_prohibited answers
\* True exactly for the tags that some tag of the document references.
ReferenceCountInvariant ==
    last.allok =>
        \A j \in 1..Len(tags) :
            LET uuid == heap[tags[j]].uuid
                n == Cardinality(ReferencingTags(heap, tags, uuid))
            IN /\ heap[tags[j]].rc = n
               /\ is_deletion_prohibited(heap, tags, uuid) <=> (n > 0)

\* the tags of one type, in list order
TagsOfType(h, tgs, tag_type) == SelectSeq(tgs, LAMBDA o : h[o].tag_type = tag_type)

\* the leading letters of an ID
AlphabeticPrefix(id) == SubSeq(id, 1, LetterRunEnd(id, 0))

\* the ID a tag of the new state had before the step: what was in its cell, or,
\* for the tag an addTag just made, what its tag data carried
PreviousId(o) ==
    IF last'.op = "add" /\ o = last'.oid
    THEN (IF last'.id = NoId THEN <<>> ELSE last'.id)
    ELSE get_id(heap[o])

\* C5: after an addTag or deleteTag of a tag of type X (every operation so far
\* having returned), the tags of type X in the document carry the numbers 1..k
\* in increasing order of position, each behind the alphabetic prefix of the
\* ID it had before.
IdSequentiality ==
    [][(last'.op \in {"add", "delete"} /\ last'.allok) =>
          LET X == IF last'.op = "add" THEN heap'[last'.oid].tag_type
                   ELSE heap[last'.oid].tag_type
              xs == TagsOfType(heap', tags', X)
          IN \A n \in 1..Len(xs) :
                /\ get_id(heap'[xs[n]])
                     = AlphabeticPrefix(PreviousId(xs[n])) \o IntToStr(n)
                /\ \A m \in 1..Len(xs) :
                      m < n => heap'[xs[m]].position < heap'[xs[n]].position]_vars

\* C6: after any sequence of addTag, editTag and deleteTag that all returned,
\* the tag list is sorted by position and the text holds every tag's rendered
\* markup at the tag's position.
SortedAndMarkupInPlace ==
    last.allok => /\ SortedByPosition(heap, tags)
                  /\ MarkupInPlace(heap, text, tags)

\* C7: an addTag that returned leaves the other tags in their order by
\* position, leaves the tags before the insertion point where they were, and
\* moves the tags after it by the length of the new tag's rendered markup less
\* the length of its inner text.
AddTagShift ==
    [][(last'.op = "add" /\ last'.allok) =>
          LET new == heap'[last'.oid]
              shift == Len(TagStr(new)) - Len(new.text)
          IN /\ \A i, j \in 1..Len(tags) :
                    heap[tags[i]].position < heap[tags[j]].position
                        => heap'[tags[i]].position < heap'[tags[j]].position
             /\ \A j \in 1..Len(tags) :
                   /\ heap[tags[j]].position < new.position
                         => heap'[tags[j]].position = heap[tags[j]].position
                   /\ heap[tags[j]].position > new.position
                         => heap'[tags[j]].position
                              = heap[tags[j]].position + shift]_vars

---------------------------------------------------------------------------
(* The user-facing operations of the controller.  Their commands' execute  *)
(* calls the tag manager's operation of the same name.                     *)

\* perform_add_tag: the form's tag data, completed with the id_name of its type
PerformAddTag ==
    /\ Len(heap) < MaxObjs
    /\ \E tag_type \in TagTypes, position \in PlainPositions(text), idc \in IdChoices :
         \E ref \in RefChoices(tag_type, heap, tags) :
           LET oid == Len(heap) + 1
               data == TagData(tag_type, idc, ref, position, <<text[position + 1]>>)
               Added(r) ==
                   /\ Apply(r)
                   /\ nextUuid' = nextUuid + 1
                   /\ last' = Outcome("add", r, oid, nextUuid, idc)
           IN Added(add_tag(Append(heap, data), text, tags, oid, nextUuid))
    /\ UNCHANGED <<cm, cmd, rt, al>>

\* perform_edit_tag: the tag is looked up by the ID chosen in the form
PerformEditTag ==
    /\ Len(heap) < MaxObjs
    /\ \E tag_id \in IdsOf(heap, tags), idc \in IdChoices :
         \E tag_uuid \in {get_uuid_from_id(heap, tags, tag_id)} :
         \E old \in {heap[tags[FirstOf({j \in 1..Len(tags) :
                                          heap[tags[j]].uuid = tag_uuid})]]} :
            \E ref \in RefChoices(old.tag_type, heap, tags) :
              LET oid == Len(heap) + 1
                  data == TagData(old.tag_type, idc, ref, old.position, old.text)
                  Edited(r) ==
                      /\ Apply(r)
                      /\ last' = Outcome("edit", r, oid, tag_uuid, idc)
              IN Edited(edit_tag(Append(heap, data), text, tags, tag_uuid, oid))
    /\ UNCHANGED <<nextUuid, cm, cmd, rt, al>>

\* perform_delete_tag: refused (TAG_IS_REFERENCED) when is_deletion_prohibited
PerformDeleteTag ==
    /\ \E tag_id \in IdsOf(heap, tags) :
         LET same == Result(TRUE, "", heap, text, tags)
             Deleted(r, oid, tag_uuid) ==
                 /\ Apply(r)
                 /\ last' = Outcome("delete", r, oid, tag_uuid, NoId)
             Found(tag_uuid, oid) ==
                 IF is_deletion_prohibited(heap, tags, tag_uuid)
                 THEN /\ UNCHANGED <<heap, text, tags>>
                      /\ last' = Outcome("refused", same, oid, tag_uuid, NoId)
                 ELSE Deleted(delete_tag(heap, text, tags, tag_uuid), oid, tag_uuid)
             Chosen(tag_uuid) ==
                 Found(tag_uuid,
                       tags[FirstOf({j \in 1..Len(tags) : heap[tags[j]].uuid = tag_uuid})])
         IN Chosen(get_uuid_from_id(heap, tags, tag_id))
    /\ UNCHANGED <<nextUuid, cm, cmd, rt, al>>

NextUser == PerformAddTag \/ PerformEditTag \/ PerformDeleteTag

SpecUser == Init /\ [][NextUser]_vars

\* C4: under the user-facing operations (every one so far having returned),
\* each resolved reference of each tag of the document points to a tag object
\* that is in the document's tag list.
ReferencedTagsStayInDocument ==
    last.allok =>
        \A j \in 1..Len(tags) :
            \A n \in 1..Len(heap[tags[j]].references) :
                heap[tags[j]].references[n][2].oid \in Range(tags)

---------------------------------------------------------------------------
(* TagProcessor: from a text with markup to tag data and back              *)

\* The match of  <(\w+)\s*([^>]*)>(.*?)</\1>  (DOTALL) starting exactly at index
\* st (0-based), the tag name being followed by a space or ">" : a record of
\* the groups and the end (exclusive) of the match; ok = FALSE without a match.
TagMatchAt(s, st) ==
    LET name_end == WordRunEnd(s, st + 1)
        tag_type == SubSeq(s, st + 2, name_end)
        attrs_at == SpaceRunEnd(s, name_end)
        gt == FindChar(s, ">", attrs_at)
        closing == <<"<", "/">> \o tag_type \o <<">">>
        close_at == FindSub(s, closing, gt + 1)
        none == [ok |-> FALSE, tag_type |-> <<>>, attributes |-> <<>>,
                 content |-> <<>>, start |-> st, end |-> st]
    IN IF ~(st < Len(s) /\ s[st + 1] = "<" /\ name_end > st + 1) THEN none
       ELSE IF gt = -1 \/ close_at = -1 THEN none
       ELSE [ok |-> TRUE, tag_type |-> tag_type,
             attributes |-> PySlice(s, attrs_at, gt),
             content |-> PySlice(s, gt + 1, close_at),
             start |-> st, end |-> close_at + Len(closing)]

\* tag_pattern.finditer(text): the matches from index st on, left to right
RECURSIVE FindTagMatches(_, _)
FindTagMatches(s, st) ==
    IF st >= Len(s) THEN <<>>
    ELSE LET Tried(m) == IF m.ok THEN <<m>> \o FindTagMatches(s, m.end)
                         ELSE FindTagMatches(s, st + 1)
         IN Tried(TagMatchAt(s, st))

\* dict(attribute_pattern.findall(raw)) for  (\w+)="([^"]*)"
RECURSIVE ParseAttributes(_, _, _)
ParseAttributes(raw, i, acc) ==
    IF i >= Len(raw) THEN acc
    ELSE IF raw[i + 1] \notin WordChars THEN ParseAttributes(raw, i + 1, acc)
    ELSE LET e == WordRunEnd(raw, i)
             quote == IF StartsAt(raw, <<"=", "\"">>, e)
                      THEN FindChar(raw, "\"", e + 2) ELSE -1
         IN IF quote = -1 THEN ParseAttributes(raw, e, acc)
            ELSE ParseAttributes(raw, quote + 1,
                     DictSet(acc, SubSeq(raw, i + 1, e), PySlice(raw, e + 2, quote)))

\* the references of extracted tag data: the attributes named by get_id_refs
RECURSIVE SelectKeys(_, _)
SelectKeys(attrs, keys) ==
    IF attrs = <<>> THEN <<>>
    ELSE (IF Head(attrs)[1] \in keys
          THEN << <<Head(attrs)[1], StrRef(Head(attrs)[2])>> >> ELSE <<>>)
         \o SelectKeys(Tail(attrs), keys)

\* _extract_tags_from_text, over the matches from the n-th on: the tag data of
\* the recognised types; ok = FALSE where attributes.pop(id_name) raises KeyError
RECURSIVE ExtractFrom(_, _, _)
ExtractFrom(matches, n, acc) ==
    IF n > Len(matches) THEN [ok |-> TRUE, tags |-> acc]
    ELSE LET m == matches[n]
             tag_type == IF Len(m.tag_type) = 1 THEN m.tag_type[1] ELSE ""
             id_name == get_id_name(tag_type)
             tag_data(attributes) ==
                 [uuid |-> 0, tag_type |-> tag_type, attributes |-> attributes,
                  position |-> m.start, text |-> Strip(m.content),
                  id_name |-> id_name,
                  references |-> SelectKeys(attributes, get_id_refs(tag_type)),
                  rc |-> 0]
             Parsed(parsed) ==
                 IF ~HasKey(parsed, id_name) THEN [ok |-> FALSE, tags |-> acc]
                 ELSE ExtractFrom(matches, n + 1,
                          Append(acc, tag_data(DictSet(DictDel(parsed, id_name), IdKey,
                                                       DictGet(parsed, id_name, <<>>)))))
         IN IF id_name = <<>> THEN ExtractFrom(matches, n + 1, acc)
            ELSE Parsed(ParseAttributes(m.attributes, 0, <<>>))

_extract_tags_from_text(txt) == ExtractFrom(FindTagMatches(txt, 0), 1, <<>>)

\* delete_all_tags_from_text: every match replaced by its content
RECURSIVE DeleteTagsFrom(_, _)
DeleteTagsFrom(s, st) ==
    IF st >= Len(s) THEN <<>>
    ELSE LET Tried(m) == IF m.ok THEN m.content \o DeleteTagsFrom(s, m.end)
                         ELSE <<s[st + 1]>> \o DeleteTagsFrom(s, st + 1)
         IN Tried(TagMatchAt(s, st))

delete_all_tags_from_text(txt) == DeleteTagsFrom(txt, 0)

never_unmergable(sentence) == FALSE

\* is_sentence_unmergable: some tag of the sentence has references
is_sentence_unmergable(sentence) ==
    LET WithReferences(x) == \E n \in 1..Len(x.tags) : x.tags[n].references # <<>>
    IN WithReferences(_extract_tags_from_text(sentence))

---------------------------------------------------------------------------
(* Comparison model and adopt command.  text and tags are the merged       *)
(* document; cm is the comparison model with the tag lists of the live     *)
(* documents; cmd holds the undo and redo stacks of the comparison view.   *)
(* A session is followed up to the first call that raises.                 *)

Separator == <<"\n", "\n">>

\* one tag in the markup of an annotator's file
Markup(tag_type, id, content) ==
    <<"<", tag_type, " ">> \o KeyValue(get_id_name(tag_type), id) \o <<">">>
    \o content \o <<"<", "/", tag_type, ">">>

\* one tag with a reference to the tag of the given ID
MarkupWithReference(tag_type, id, ref, content) ==
    <<"<", tag_type, " ">> \o KeyValue(get_id_name(tag_type), id) \o <<" ">>
    \o KeyValue(RefKey, ref) \o <<">">> \o content \o <<"<", "/", tag_type, ">">>

\* The comparison data of the model: the sentences of the merged text, and per
\* document (the raw one first, then three annotators) its rendition of each
\* comparison unit.  The third annotator's E tags refer to another tag.
MergedSentences == << <<"a", "b">>, <<"c", "d">> >>

DifferingToGlobal == <<0, 1>>

ComparisonSentences ==
    << MergedSentences,
       << Markup("T", <<"1">>, <<"a">>) \o <<"b">>,
          <<"c">> \o Markup("T", <<"2">>, <<"d">>) >>,
       << Markup("T", <<"1">>, <<"a">>) \o Markup("T", <<"2">>, <<"b">>),
          Markup("T", <<"3">>, <<"c">>) \o Markup("E", <<"1">>, <<"d">>) >>,
       << Markup("T", <<"1">>, <<"a">>) \o MarkupWithReference("E", <<"1">>, <<"t", "1">>, <<"b">>),
          <<"c">> \o MarkupWithReference("E", <<"2">>, <<"t", "1">>, <<"d">>) >> >>

\* commands ever made for the comparison view
MaxCmds == 2

RECURSIVE JoinWith(_, _)
JoinWith(parts, sep) ==
    IF parts = <<>> THEN <<>>
    ELSE IF Len(parts) = 1 THEN parts[1]
    ELSE parts[1] \o sep \o JoinWith(Tail(parts), sep)

\* str.split(sep)
RECURSIVE Split(_, _)
Split(s, sep) ==
    LET Found(at) == IF at = -1 THEN <<s>>
                     ELSE <<PyTo(s, at)>> \o Split(PyFrom(s, at + Len(sep)), sep)
    IN Found(FindSub(s, sep, 0))

RECURSIVE SumLengths(_, _, _)
SumLengths(parts, n, separator_length) ==
    IF n = 0 THEN 0
    ELSE Len(parts[n]) + separator_length + SumLengths(parts, n - 1, separator_length)

\* a get_sentence_offset that leaves the separators out of the sum
offset_without_separators(c, merged_text) ==
    IF c.current_index >= Len(DifferingToGlobal) THEN -1
    ELSE SumLengths(Split(merged_text, Separator),
                    DifferingToGlobal[c.current_index + 1], 0)

\* get_sentence_offset: -1 where it raises IndexError
get_sentence_offset(c, merged_text) ==
    IF c.current_index >= Len(DifferingToGlobal) THEN -1
    ELSE LET global_index == DifferingToGlobal[c.current_index + 1]
             Summed(sentences) ==
                 IF global_index > Len(sentences) THEN -1
                 ELSE SumLengths(sentences, global_index, Len(Separator))
         IN Summed(Split(merged_text, Separator))

\* mark_sentence_as_adopted: index -1 stands for the call without an index
mark_sentence_as_adopted(c, adopted_index) ==
    LET index == IF adopted_index = -1 THEN c.current_index ELSE adopted_index
    IN IF ComparisonSentences = <<>> \/ ComparisonSentences[1] = <<>>
       THEN [ok |-> TRUE, cm |-> c, index |-> -1]
       ELSE IF index >= Len(c.adopted_flags)
            THEN [ok |-> FALSE, cm |-> c, index |-> index]
            ELSE [ok |-> TRUE,
                  cm |-> [c EXCEPT !.adopted_flags[index + 1] = TRUE],
                  index |-> index]

\* an unmark_sentence_as_adopted that leaves the flag as it is
unmark_keeps_flag(c, index) ==
    IF index < 0 \/ index >= Len(c.adopted_flags) THEN [ok |-> FALSE, cm |-> c]
    ELSE [ok |-> TRUE, cm |-> c]

\* unmark_sentence_as_adopted
unmark_sentence_as_adopted(c, index) ==
    IF index < 0 \/ index >= Len(c.adopted_flags) THEN [ok |-> FALSE, cm |-> c]
    ELSE [ok |-> TRUE, cm |-> [c EXCEPT !.adopted_flags[index + 1] = FALSE]]

\* a free heap address: a cleared cell's, or a new one
FreeAddress(h) ==
    IF \E o \in 1..Len(h) : h[o] = Dead
    THEN FirstOf({o \in 1..Len(h) : h[o] = Dead}) ELSE Len(h) + 1

Store(h, cell) ==
    LET At(o) == IF o > Len(h) THEN Append(h, cell) ELSE [h EXCEPT ![o] = cell]
    IN At(FreeAddress(h))

\* TagModel(tag_data) for each of a list of tag data: the heap and the addresses
RECURSIVE MakeTags(_, _, _, _)
MakeTags(h, data, n, acc) ==
    IF n > Len(data) THEN [heap |-> h, oids |-> acc]
    ELSE MakeTags(Store(h, data[n]), data, n + 1, Append(acc, FreeAddress(h)))

\* _shift_and_update after the index moved: the tags of every document's
\* rendition of the current unit, extracted anew
RECURSIVE UpdateDocuments(_, _, _, _)
UpdateDocuments(h, index, d, acc) ==
    IF d > Len(ComparisonSentences) THEN [heap |-> h, docs |-> acc]
    ELSE LET Made(made) ==
                 UpdateDocuments(made.heap, index, d + 1, Append(acc, made.oids))
         IN Made(MakeTags(h, _extract_tags_from_text(
                                 ComparisonSentences[d][index + 1]).tags, 1, <<>>))

\* TagModel.to_dict: the dictionary the tag holds.  execute() adds the offset
\* to its "position" and hands it to add_tag, and undo() reads the source
\* tag's position back from it.
to_dict(oid) == oid

\* the tag data of a tag list, in list order
TagList(h, tgs) == [n \in 1..Len(tgs) |-> h[tgs[n]]]

\* AdoptAnnotationCommand.__init__; before is what the command met when it
\* was made: the merged document, the current unit and its flag and the
\* source tags' positions
NewCommand(tag_models, c, h, txt, tgs) ==
    [tag_models |-> tag_models, inserted_uuids |-> <<>>, sentence_offset |-> 0,
     marked_sentence_index |-> 0, executed |-> FALSE, undone |-> TRUE,
     redone |-> TRUE,
     before |-> [text |-> txt, tags |-> TagList(h, tgs),
                 flag |-> c.adopted_flags[c.current_index + 1],
                 unit |-> c.current_index,
                 positions |-> [n \in 1..Len(tag_models) |-> h[tag_models[n]].position]],
     after_text |-> <<>>]

CommandResult(ok, err, command, h, txt, tgs, c, nu) ==
    [ok |-> ok, err |-> err, command |-> command, heap |-> h, text |-> txt,
     tags |-> tgs, cm |-> c, nextUuid |-> nu]

\* the loop of execute() and redo(): shift each tag's data and add it
RECURSIVE AdoptLoop(_, _, _, _, _, _, _, _)
AdoptLoop(h, txt, tgs, tag_models, n, sentence_offset, uuids, nu) ==
    IF n > Len(tag_models)
    THEN [ok |-> TRUE, err |-> "", heap |-> h, text |-> txt, tags |-> tgs,
          uuids |-> uuids, nextUuid |-> nu]
    ELSE LET tag_data == to_dict(tag_models[n])
             h1 == [h EXCEPT ![tag_data].position = @ + sentence_offset]
             nu1 == IF h1[tag_data].uuid = 0 THEN nu + 1 ELSE nu
             Added(r) ==
                 IF ~r.ok
                 THEN [ok |-> FALSE, err |-> r.err, heap |-> r.heap, text |-> r.text,
                       tags |-> r.tags, uuids |-> uuids, nextUuid |-> nu1]
                 ELSE AdoptLoop(r.heap, r.text, r.tags, tag_models, n + 1,
                                sentence_offset, Append(uuids, r.heap[tag_data].uuid),
                                nu1)
         IN Added(add_tag(h1, txt, tgs, tag_data, nu))

\* AdoptAnnotationCommand.execute
execute(command, h, txt, tgs, c, nu) ==
    LET Marked(loop, c2, mark) ==
            IF ~mark.ok
            THEN CommandResult(FALSE, "index", c2, loop.heap, loop.text, loop.tags, c,
                               loop.nextUuid)
            ELSE CommandResult(TRUE, "",
                     [c2 EXCEPT !.marked_sentence_index = mark.index,
                                !.executed = TRUE, !.undone = FALSE,
                                !.after_text = loop.text],
                     loop.heap, loop.text, loop.tags, mark.cm, loop.nextUuid)
        Inserted(loop, c2) ==
            IF ~loop.ok
            THEN CommandResult(FALSE, loop.err, c2, loop.heap, loop.text, loop.tags, c,
                               loop.nextUuid)
            ELSE Marked(loop, c2, mark_sentence_as_adopted(c, -1))
        Looped(c1, loop) == Inserted(loop, [c1 EXCEPT !.inserted_uuids = loop.uuids])
        Offset(sentence_offset) ==
            IF sentence_offset = -1
            THEN CommandResult(FALSE, "index", command, h, txt, tgs, c, nu)
            ELSE Looped([command EXCEPT !.sentence_offset = sentence_offset],
                        AdoptLoop(h, txt, tgs, command.tag_models, 1, sentence_offset,
                                  command.inserted_uuids, nu))
    IN IF command.executed THEN CommandResult(TRUE, "", command, h, txt, tgs, c, nu)
       ELSE Offset(get_sentence_offset(c, txt))

\* the first loop of undo(): delete every inserted uuid
RECURSIVE DeleteLoop(_, _, _, _, _)
DeleteLoop(h, txt, tgs, uuids, n) ==
    IF n > Len(uuids) THEN Result(TRUE, "", h, txt, tgs)
    ELSE LET Deleted(r) ==
                 IF ~r.ok THEN r ELSE DeleteLoop(r.heap, r.text, r.tags, uuids, n + 1)
         IN Deleted(delete_tag(h, txt, tgs, uuids[n]))

\* the second loop of undo(): each source tag's position less the offset
RECURSIVE RevertLoop(_, _, _, _)
RevertLoop(h, tag_models, n, sentence_offset) ==
    IF n > Len(tag_models) THEN h
    ELSE RevertLoop([h EXCEPT ![tag_models[n]].position =
                                  h[to_dict(tag_models[n])].position - sentence_offset],
                    tag_models, n + 1, sentence_offset)

\* AdoptAnnotationCommand.undo
undo(command, h, txt, tgs, c, nu) ==
    LET Unmarked(del, h1, unmark) ==
            IF ~unmark.ok
            THEN CommandResult(FALSE, "index", command, h1, del.text, del.tags, c, nu)
            ELSE CommandResult(TRUE, "",
                     [command EXCEPT !.inserted_uuids = <<>>, !.undone = TRUE,
                                     !.redone = FALSE],
                     h1, del.text, del.tags, unmark.cm, nu)
        Deleted(del) ==
            IF ~del.ok
            THEN CommandResult(FALSE, del.err, command, del.heap, del.text, del.tags, c, nu)
            ELSE Unmarked(del,
                          RevertLoop(del.heap, command.tag_models, 1,
                                     command.sentence_offset),
                          unmark_sentence_as_adopted(c, command.marked_sentence_index))
    IN IF command.undone THEN CommandResult(TRUE, "", command, h, txt, tgs, c, nu)
       ELSE Deleted(DeleteLoop(h, txt, tgs, command.inserted_uuids, 1))

\* AdoptAnnotationCommand.redo
redo(command, h, txt, tgs, c, nu) ==
    LET Marked(loop, c2, mark) ==
            IF ~mark.ok
            THEN CommandResult(FALSE, "index", c2, loop.heap, loop.text, loop.tags, c,
                               loop.nextUuid)
            ELSE CommandResult(TRUE, "",
                     [c2 EXCEPT !.marked_sentence_index = mark.index,
                                !.redone = TRUE, !.undone = FALSE],
                     loop.heap, loop.text, loop.tags, mark.cm, loop.nextUuid)
        Inserted(loop, c2) ==
            IF ~loop.ok
            THEN CommandResult(FALSE, loop.err, c2, loop.heap, loop.text, loop.tags, c,
                               loop.nextUuid)
            ELSE Marked(loop, c2,
                        mark_sentence_as_adopted(c, command.marked_sentence_index))
        Looped(loop) == Inserted(loop, [command EXCEPT !.inserted_uuids = loop.uuids])
    IN IF command.redone THEN CommandResult(TRUE, "", command, h, txt, tgs, c, nu)
       ELSE Looped(AdoptLoop(h, txt, tgs, command.tag_models, 1,
                             command.sentence_offset, command.inserted_uuids, nu))

\* The undo/redo model of a view: two stacks.  execute_command puts the command
\* on the undo stack and clears the redo stack; undo_command and redo_command
\* move the top command to the other stack and return it.
execute_command(stacks, command) ==
    [undo |-> Append(stacks.undo, command), redo |-> <<>>, made |-> stacks.made + 1]

undo_command(stacks) ==
    [stacks EXCEPT !.undo = SubSeq(@, 1, Len(@) - 1),
                   !.redo = Append(@, stacks.undo[Len(stacks.undo)])]

redo_command(stacks) ==
    [stacks EXCEPT !.redo = SubSeq(@, 1, Len(@) - 1),
                   !.undo = Append(@, stacks.redo[Len(stacks.redo)])]

\* the tags some live object still holds: the merged document's, the live
\* documents' and the commands'
Held(tgs, docs, stacks) ==
    Range(tgs)
    \cup UNION {Range(docs[d]) : d \in 1..Len(docs)}
    \cup UNION {Range(stacks.undo[n].tag_models) : n \in 1..Len(stacks.undo)}
    \cup UNION {Range(stacks.redo[n].tag_models) : n \in 1..Len(stacks.redo)}

\* next_sentences / previous_sentences followed by _shift_and_update's update
\* of the live documents: the comparison model and the heap
ShiftAndUpdate(c, h, tgs, stacks, step) ==
    LET index == (c.current_index + step) % Len(ComparisonSentences[1])
        Updated(upd) ==
            [heap |-> upd.heap,
             cm |-> [c EXCEPT !.current_index = index, !.docs = upd.docs]]
    IN Updated(UpdateDocuments(Collect(h, Held(tgs, <<>>, stacks)), index, 1, <<>>))

InitAdopt ==
    LET Loaded(upd) ==
            /\ heap = upd.heap
            /\ text = JoinWith(MergedSentences, Separator)
            /\ tags = <<>>
            /\ nextUuid = 1
            /\ last = NoLast
            /\ cm = [current_index |-> 0,
                     adopted_flags |-> [d \in 1..Len(ComparisonSentences) |-> FALSE],
                     docs |-> upd.docs]
            /\ cmd = [undo |-> <<>>, redo |-> <<>>, made |-> 0]
            /\ rt = Idle /\ al = Idle
    IN Loaded(UpdateDocuments(<<>>, 0, 1, <<>>))

\* perform_next_sentence
PerformNextSentence ==
    LET Shifted(s) ==
            /\ heap' = s.heap
            /\ cm' = s.cm
            /\ last' = [last EXCEPT !.op = "next", !.ok = TRUE, !.err = ""]
            /\ UNCHANGED <<text, tags, nextUuid, cmd, rt, al>>
    IN /\ last.allok
       /\ Shifted(ShiftAndUpdate(cm, heap, tags, cmd, 1))

\* perform_prev_sentence
PerformPrevSentence ==
    LET Shifted(s) ==
            /\ heap' = s.heap
            /\ cm' = s.cm
            /\ last' = [last EXCEPT !.op = "previous", !.ok = TRUE, !.err = ""]
            /\ UNCHANGED <<text, tags, nextUuid, cmd, rt, al>>
    IN /\ last.allok
       /\ Shifted(ShiftAndUpdate(cm, heap, tags, cmd, -1))

\* what a command's call leaves: the merged document, the comparison model,
\* the stacks with the command as it is now on top of stack `on`
Leave(r, stacks, on, op) ==
    LET stacks1 == IF on = "undo"
                   THEN [stacks EXCEPT !.undo[Len(stacks.undo)] = r.command]
                   ELSE [stacks EXCEPT !.redo[Len(stacks.redo)] = r.command]
    IN /\ text' = r.text
       /\ tags' = r.tags
       /\ nextUuid' = r.nextUuid
       /\ cmd' = stacks1
       /\ last' = Outcome(op, r, 0, 0, NoId)
       /\ UNCHANGED <<rt, al>>

\* perform_adopt_annotation: refused for an adopted unit or a sentence with
\* references; otherwise the command is put on the undo stack and executed, and
\* the comparison moves to the next unit
PerformAdoptAnnotation ==
    /\ last.allok
    /\ cmd.made < MaxCmds
    /\ \E adoption_index \in 1..(Len(ComparisonSentences) - 1) :
         LET sentence_tags == cm.docs[adoption_index + 1]
             sentence == ComparisonSentences[adoption_index + 1][cm.current_index + 1]
             is_adopted == cm.adopted_flags[cm.current_index + 1]
             Moved(s) == heap' = s.heap /\ cm' = s.cm
             Executed(stacks, r) ==
                 /\ Leave(r, stacks, "undo", "execute")
                 /\ IF r.ok
                    THEN Moved(ShiftAndUpdate(
                                   r.cm, r.heap, r.tags,
                                   [stacks EXCEPT !.undo[Len(stacks.undo)] = r.command],
                                   1))
                    ELSE /\ heap' = Collect(r.heap, Held(r.tags, r.cm.docs, stacks))
                         /\ cm' = r.cm
             Made(command) ==
                 Executed(execute_command(cmd, command),
                          execute(command, heap, text, tags, cm, nextUuid))
         IN IF is_adopted \/ is_sentence_unmergable(sentence)
            THEN /\ last' = [last EXCEPT !.op = "refused", !.ok = TRUE, !.err = ""]
                 /\ UNCHANGED <<heap, text, tags, nextUuid, cm, cmd, rt, al>>
            ELSE Made(NewCommand(sentence_tags, cm, heap, text, tags))

\* undo_command of the comparison view
UndoCommand ==
    /\ last.allok
    /\ cmd.undo # <<>>
    /\ LET Undone(stacks, r) ==
               /\ Leave(r, stacks, "redo", "undo")
               /\ heap' = Collect(r.heap, Held(r.tags, r.cm.docs, stacks))
               /\ cm' = r.cm
       IN Undone(undo_command(cmd),
                 undo(cmd.undo[Len(cmd.undo)], heap, text, tags, cm, nextUuid))

\* redo_command of the comparison view
RedoCommand ==
    /\ last.allok
    /\ cmd.redo # <<>>
    /\ LET Redone(stacks, r) ==
               /\ Leave(r, stacks, "undo", "redo")
               /\ heap' = Collect(r.heap, Held(r.tags, r.cm.docs, stacks))
               /\ cm' = r.cm
       IN Redone(redo_command(cmd),
                 redo(cmd.redo[Len(cmd.redo)], heap, text, tags, cm, nextUuid))

NextAdopt ==
    \/ PerformNextSentence
    \/ PerformPrevSentence
    \/ PerformAdoptAnnotation
    \/ UndoCommand
    \/ RedoCommand

SpecAdopt == InitAdopt /\ [][NextAdopt]_vars

\* C1: when undo() undoes an executed adopt command, the merged document's
\* text and tag list are what they were before execute(), and the flag of the
\* command's unit has the value it had before execute().
AdoptUndoRestores ==
    [][(last'.op = "undo" /\ ~cmd.undo[Len(cmd.undo)].undone) =>
          LET command == cmd.undo[Len(cmd.undo)]
          IN /\ last'.ok
             /\ text' = command.before.text
             /\ TagList(heap', tags') = command.before.tags
             /\ cm'.adopted_flags[command.marked_sentence_index + 1]
                  = command.before.flag]_vars

\* an undo() has just undone a command that adopted two tags, while another
\* command's tag stays in the merged document
AdoptUndoHappened ==
    /\ last.op = "undo" /\ last.ok
    /\ cmd.redo # <<>>
    /\ Len(cmd.redo[Len(cmd.redo)].tag_models) = 2
    /\ ~cmd.redo[Len(cmd.redo)].redone
    /\ tags # <<>>

\* C2: when redo() redoes an undone adopt command, the merged document's text
\* is the text execute() left, and the command's unit is flagged adopted.
AdoptRedoReproduces ==
    [][(last'.op = "redo" /\ ~cmd.redo[Len(cmd.redo)].redone) =>
          LET command == cmd.redo[Len(cmd.redo)]
          IN /\ last'.ok
             /\ text' = command.after_text
             /\ cm'.adopted_flags[command.marked_sentence_index + 1]]_vars

---------------------------------------------------------------------------
(* Plain text and tags kept apart: get_plain_text_and_tags splits a text   *)
(* with markup, merge_plain_text_and_tags puts the tags back.  rt holds    *)
(* one text T and what the two calls made of it.                           *)

\* the plain_position of a tag the code could not place (Python's None)
NoPosition == -2

\* _build_index_mapping: per index of the text its index in the plain text,
\* or -1 inside markup
RECURSIVE BuildMapping(_, _, _)
BuildMapping(original_text, i, plain_idx) ==
    IF i >= Len(original_text) THEN <<>>
    ELSE IF original_text[i + 1] = "<"
         THEN LET end == FindChar(original_text, ">", i)
              IN IF end # -1
                 THEN [n \in 1..(end + 1 - i) |-> -1]
                      \o BuildMapping(original_text, end + 1, plain_idx)
                 ELSE <<-1>> \o BuildMapping(original_text, i + 1, plain_idx)
         ELSE <<plain_idx>> \o BuildMapping(original_text, i + 1, plain_idx + 1)

_build_index_mapping(original_text) == BuildMapping(original_text, 0, 0)

\* the body of _add_plain_positions_to_tags's loop: the plain index of the
\* first non-whitespace character of the tag's content
PlainPositionOf(tag, original_text, mapping) ==
    LET start_search == FindChar(original_text, ">", tag.position)
        content_start == start_search + 1
        closing_tag == <<"<", "/", tag.tag_type, ">">>
        end_search == FindSub(original_text, closing_tag, content_start)
        raw_content == PySlice(original_text, content_start, end_search)
        adjusted_content_start == content_start + LStripCount(raw_content)
    IN IF tag.position >= Len(original_text) THEN NoPosition
       ELSE IF start_search = -1 THEN NoPosition
       ELSE IF end_search = -1 THEN NoPosition
       ELSE IF adjusted_content_start < Len(mapping)
            THEN mapping[adjusted_content_start + 1]
            ELSE NoPosition

_add_plain_positions_to_tags(tgs, original_text, plain_text) ==
    LET mapping == _build_index_mapping(original_text)
    IN [n \in 1..Len(tgs) |->
          ("plain_position" :> PlainPositionOf(tgs[n], original_text, mapping))
          @@ tgs[n]]

extract_plain_text(txt) == delete_all_tags_from_text(txt)

\* get_plain_text_and_tags(text), without pre-extracted tags
get_plain_text_and_tags(txt) ==
    LET plain_text == extract_plain_text(txt)
        extracted == _extract_tags_from_text(txt)
    IN IF ~extracted.ok
       THEN [ok |-> FALSE, plain_text |-> plain_text, tags |-> <<>>]
       ELSE [ok |-> TRUE, plain_text |-> plain_text,
             tags |-> _add_plain_positions_to_tags(extracted.tags, txt, plain_text)]

\* ITagModel.get_plain_position: the tag data's plain_position
get_plain_position(tag) == tag.plain_position

\* _insert_tag_into_plain_text
_insert_tag_into_plain_text(plain_text, tag) ==
    LET plain_position == get_plain_position(tag)
        full_tag == TagStr(tag)
        offset == Len(tag.text)
    IN IF plain_position = NoPosition \/ plain_position > Len(plain_text)
       THEN [ok |-> FALSE, text |-> plain_text]
       ELSE [ok |-> TRUE,
             text |-> PyTo(plain_text, plain_position) \o full_tag
                      \o PyFrom(plain_text, plain_position + offset)]

\* sorted(tags, key=plain_position, reverse=True): stable, equal keys keep
\* their order
RECURSIVE SortedDescending(_)
SortedDescending(tgs) ==
    IF tgs = <<>> THEN <<>>
    ELSE LET rest == SortedDescending(Tail(tgs))
             before == SelectSeq(rest, LAMBDA t :
                           t.plain_position > Head(tgs).plain_position)
             after == SelectSeq(rest, LAMBDA t :
                          t.plain_position <= Head(tgs).plain_position)
         IN before \o <<Head(tgs)>> \o after

RECURSIVE MergeLoop(_, _, _)
MergeLoop(merged_text, sorted_tags, n) ==
    IF n > Len(sorted_tags) THEN [ok |-> TRUE, text |-> merged_text]
    ELSE LET r == _insert_tag_into_plain_text(merged_text, sorted_tags[n])
         IN IF ~r.ok THEN r ELSE MergeLoop(r.text, sorted_tags, n + 1)

\* merge_plain_text_and_tags; a plain_position of None does not pass the sort
\* or the insertion
merge_plain_text_and_tags(plain_text, tgs) ==
    IF \E n \in 1..Len(tgs) : tgs[n].plain_position = NoPosition
    THEN [ok |-> FALSE, text |-> plain_text]
    ELSE MergeLoop(plain_text, SortedDescending(tgs), 1)

\* pieces a text T is made of: plain characters and well-formed tags of the
\* schema's types, one after the other
MaxPieces == 3

RTPieces ==
    { <<"a">>, <<" ">>,
      Markup("T", <<"1">>, <<"a">>),
      Markup("T", <<"2">>, <<"a", "b">>),
      Markup("T", <<"1">>, <<" ", "a">>),
      Markup("T", <<"1">>, <<"a", " ">>),
      Markup("T", <<"1">>, <<>>),
      <<"<", "E", " ">> \o KeyValue(<<"j">>, <<"1">>) \o <<" ">>
          \o KeyValue(RefKey, <<"1">>) \o <<">", "b", "<", "/", "E", ">">>,
      <<"<", "E", " ">> \o KeyValue(RefKey, <<"1">>) \o <<" ">>
          \o KeyValue(<<"j">>, <<"1">>) \o <<">", "b", "<", "/", "E", ">">> }

RECURSIVE Concats(_)
Concats(n) ==
    IF n = 0 THEN {<<>>}
    ELSE LET shorter == Concats(n - 1)
         IN shorter \cup {p \o q : p \in shorter, q \in RTPieces}

RTTexts == Concats(MaxPieces)

InitRT ==
    /\ rt \in {[phase |-> "text", T |-> t, ok |-> TRUE, plain_text |-> <<>>,
                tags |-> <<>>, merged |-> <<>>] : t \in RTTexts}
    /\ heap = <<>> /\ text = <<>> /\ tags = <<>> /\ nextUuid = 1
    /\ last = NoLast /\ cm = Idle /\ cmd = Idle /\ al = Idle

GetPlainTextAndTags ==
    /\ rt.phase = "text"
    /\ LET r == get_plain_text_and_tags(rt.T)
       IN rt' = [rt EXCEPT !.phase = "split", !.ok = r.ok,
                           !.plain_text = r.plain_text, !.tags = r.tags]
    /\ UNCHANGED <<heap, text, tags, nextUuid, last, cm, cmd, al>>

MergePlainTextAndTags ==
    /\ rt.phase = "split" /\ rt.ok
    /\ LET r == merge_plain_text_and_tags(rt.plain_text, rt.tags)
       IN rt' = [rt EXCEPT !.phase = "merged", !.ok = r.ok, !.merged = r.text]
    /\ UNCHANGED <<heap, text, tags, nextUuid, last, cm, cmd, al>>

NextRT == GetPlainTextAndTags \/ MergePlainTextAndTags

SpecRT == InitRT /\ [][NextRT]_vars

\* C8: a text of well-formed, non-nested tags of the schema's types that is
\* split by get_plain_text_and_tags and merged again by
\* merge_plain_text_and_tags comes back exactly as it was.
SplitMergeRoundTrip ==
    rt.phase = "merged" => (rt.ok /\ rt.merged = rt.T)

---------------------------------------------------------------------------
(* ComparisonManager: the renditions of one text by several annotators are *)
(* aligned sentence by sentence, then the sentences that differ are kept   *)
(* as comparison units.  A text is a list of sentences.                    *)

\* _similarity_threshold, in percent
_similarity_threshold == 90

_max_lookahead == 10

\* x in seq
InList(x, seq) == \E n \in 1..Len(seq) : seq[n] = x

\* _extract_clean_texts: every sentence without its markup
_extract_clean_texts(tagged_texts) ==
    [k \in 1..Len(tagged_texts) |->
        [n \in 1..Len(tagged_texts[k]) |->
            delete_all_tags_from_text(tagged_texts[k][n])]]

\* the threshold test with > in place of >=
MeetsThresholdStrictly(n_common, n_set) ==
    100 * n_common > _similarity_threshold * n_set

\* ratio >= self._similarity_threshold for ratio = n_common / n_set
MeetsThreshold(n_common, n_set) ==
    100 * n_common >= _similarity_threshold * n_set

AlignResult(ok, err, texts, clean_texts) ==
    [ok |-> ok, err |-> err, texts |-> texts, clean_texts |-> clean_texts]

\* the while loop of _align_similar_texts
RECURSIVE AlignLoop(_, _, _, _, _, _)
AlignLoop(texts, clean_texts, sentence_indices, aligned_texts, aligned_clean_texts, align_option) ==
    LET N == Len(texts)
        current_elements ==
            [k \in 1..N |-> IF sentence_indices[k] < Len(clean_texts[k])
                            THEN clean_texts[k][sentence_indices[k] + 1]
                            ELSE <<>>]
        similar == \A k \in 2..N : current_elements[k] = current_elements[1]
        buffers == [k \in 1..N |->
                      PySlice(clean_texts[k], sentence_indices[k] + 1,
                              sentence_indices[k] + _max_lookahead)]
        next_candidates ==
            SelectSeq([k \in 1..N |-> k],
                      LAMBDA k : \A b \in 1..N :
                                    ~InList(current_elements[k], buffers[b]))
        Count(sentence) ==
            Cardinality({n \in 1..Len(next_candidates) :
                            current_elements[next_candidates[n]] = sentence})
        unique == \A n \in 1..Len(next_candidates) :
                     current_elements[next_candidates[n]]
                       = current_elements[next_candidates[1]]
        first_most == CHOOSE n \in 1..Len(next_candidates) :
                        /\ \A m \in 1..Len(next_candidates) :
                              Count(current_elements[next_candidates[m]])
                                <= Count(current_elements[next_candidates[n]])
                        /\ \A m \in 1..(n - 1) :
                              Count(current_elements[next_candidates[m]])
                                < Count(current_elements[next_candidates[n]])
        most_frequent_sentence == current_elements[next_candidates[first_most]]
        kept == IF unique THEN next_candidates
                ELSE SelectSeq(next_candidates,
                         LAMBDA k : current_elements[k] = most_frequent_sentence)
        text_index == kept[1]
        Advance(S) == [k \in 1..N |-> IF k \in S THEN sentence_indices[k] + 1
                                      ELSE sentence_indices[k]]
    IN IF ~(\E k \in 1..N : sentence_indices[k] < Len(clean_texts[k]))
       THEN AlignResult(TRUE, "", aligned_texts, aligned_clean_texts)
       ELSE IF similar
       THEN IF \E k \in 1..N : sentence_indices[k] >= Len(texts[k])
            THEN AlignResult(FALSE, "index", aligned_texts, aligned_clean_texts)
            ELSE AlignLoop(texts, clean_texts, Advance(1..N),
                   [k \in 1..N |-> Append(aligned_texts[k],
                                          texts[k][sentence_indices[k] + 1])],
                   [k \in 1..N |-> Append(aligned_clean_texts[k],
                                          clean_texts[k][sentence_indices[k] + 1])],
                   align_option)
       ELSE IF next_candidates = <<>>
       THEN AlignResult(FALSE,
                IF align_option = "intersection" THEN "ambiguous" ELSE "no_option",
                aligned_texts, aligned_clean_texts)
       ELSE IF align_option = "intersection"
       THEN IF \A k \in Range(next_candidates) :
                  sentence_indices[k] >= Len(clean_texts[k])
            THEN \* only texts past their end advance: every later pass
                 \* meets the same sentences, the loop does not end
                 AlignResult(FALSE, "hang", aligned_texts, aligned_clean_texts)
            ELSE AlignLoop(texts, clean_texts, Advance(Range(next_candidates)),
                           aligned_texts, aligned_clean_texts, align_option)
       ELSE IF sentence_indices[text_index] >= Len(texts[text_index])
       THEN AlignResult(FALSE, "index", aligned_texts, aligned_clean_texts)
       ELSE AlignLoop(texts, clean_texts, Advance(Range(kept)),
              [k \in 1..N |-> Append(aligned_texts[k],
                     texts[text_index][sentence_indices[text_index] + 1])],
              [k \in 1..N |-> Append(aligned_clean_texts[k],
                     clean_texts[text_index][sentence_indices[text_index] + 1])],
              align_option)

\* what the renditions' clean-sentence sets have in common
CommonSentences(clean_texts) ==
    {x \in Range(clean_texts[1]) :
        \A k \in 1..Len(clean_texts) : x \in Range(clean_texts[k])}

\* an alignment that walks the texts under the union policy whatever the option
align_always_union(texts, clean_texts, align_option) ==
    LET clean_text_sets == [k \in 1..Len(clean_texts) |-> Range(clean_texts[k])]
        common_sentences == CommonSentences(clean_texts)
        empty == [k \in 1..Len(texts) |-> <<>>]
    IN IF \A k \in 1..Len(clean_texts) : clean_text_sets[k] = common_sentences
       THEN AlignResult(TRUE, "", texts, clean_texts)
       ELSE IF ~(\A k \in 1..Len(clean_texts) :
                    MeetsThreshold(Cardinality(common_sentences),
                                   Cardinality(clean_text_sets[k])))
       THEN AlignResult(FALSE, "similarity", texts, clean_texts)
       ELSE AlignLoop(texts, clean_texts, [k \in 1..Len(texts) |-> 0],
                      empty, empty, "union")

\* _align_similar_texts
_align_similar_texts(texts, clean_texts, align_option) ==
    LET clean_text_sets == [k \in 1..Len(clean_texts) |-> Range(clean_texts[k])]
        common_sentences == CommonSentences(clean_texts)
        empty == [k \in 1..Len(texts) |-> <<>>]
    IN IF \A k \in 1..Len(clean_texts) : clean_text_sets[k] = common_sentences
       THEN AlignResult(TRUE, "", texts, clean_texts)
       ELSE IF ~(\A k \in 1..Len(clean_texts) :
                    MeetsThreshold(Cardinality(common_sentences),
                                   Cardinality(clean_text_sets[k])))
       THEN AlignResult(FALSE, "similarity", texts, clean_texts)
       ELSE AlignLoop(texts, clean_texts, [k \in 1..Len(texts) |-> 0],
                      empty, empty, align_option)

\* attribute_pattern.findall(raw): the key="value" pairs in order
RECURSIVE FindAllAttributes(_, _)
FindAllAttributes(raw, i) ==
    IF i >= Len(raw) THEN <<>>
    ELSE IF raw[i + 1] \notin WordChars THEN FindAllAttributes(raw, i + 1)
    ELSE LET e == WordRunEnd(raw, i)
             quote == IF StartsAt(raw, <<"=", "\"">>, e)
                      THEN FindChar(raw, "\"", e + 2) ELSE -1
         IN IF quote = -1 THEN FindAllAttributes(raw, e)
            ELSE << <<SubSeq(raw, i + 1, e), PySlice(raw, e + 2, quote)>> >>
                 \o FindAllAttributes(raw, quote + 1)

\* clean_tag of remove_ids_from_tags: the tag without its ID and IDREF
\* attributes
clean_tag(m) ==
    LET tag_type == IF Len(m.tag_type) = 1 THEN m.tag_type[1] ELSE ""
        idrefs == get_id_refs(tag_type)
        cleaned_attributes ==
            SelectSeq(FindAllAttributes(m.attributes, 0),
                      LAMBDA kv : kv[1] \notin idrefs)
    IN <<"<">> \o m.tag_type \o <<" ">> \o JoinAttrs(cleaned_attributes)
       \o <<">">> \o m.content \o <<"<", "/">> \o m.tag_type \o <<">">>

\* a removal that takes out the ID attribute only and keeps the IDREF
\* attributes
clean_tag_keeping_refs(m) ==
    LET tag_type == IF Len(m.tag_type) = 1 THEN m.tag_type[1] ELSE ""
        cleaned_attributes ==
            SelectSeq(FindAllAttributes(m.attributes, 0),
                      LAMBDA kv : kv[1] # get_id_name(tag_type))
    IN <<"<">> \o m.tag_type \o <<" ">> \o JoinAttrs(cleaned_attributes)
       \o <<">">> \o m.content \o <<"<", "/">> \o m.tag_type \o <<">">>

RECURSIVE RemoveIdOnlyFrom(_, _)
RemoveIdOnlyFrom(s, st) ==
    IF st >= Len(s) THEN <<>>
    ELSE LET m == TagMatchAt(s, st)
         IN IF m.ok THEN clean_tag_keeping_refs(m) \o RemoveIdOnlyFrom(s, m.end)
            ELSE <<s[st + 1]>> \o RemoveIdOnlyFrom(s, st + 1)

remove_id_only(txt) == RemoveIdOnlyFrom(txt, 0)

RECURSIVE RemoveIdsFrom(_, _)
RemoveIdsFrom(s, st) ==
    IF st >= Len(s) THEN <<>>
    ELSE LET m == TagMatchAt(s, st)
         IN IF m.ok THEN clean_tag(m) \o RemoveIdsFrom(s, m.end)
            ELSE <<s[st + 1]>> \o RemoveIdsFrom(s, st + 1)

remove_ids_from_tags(txt) == RemoveIdsFrom(txt, 0)

\* zip(*tagged_texts) stops with the shortest text
ZipLength(tagged_texts) ==
    CHOOSE n \in {Len(tagged_texts[k]) : k \in 1..Len(tagged_texts)} :
        \A k \in 1..Len(tagged_texts) : n <= Len(tagged_texts[k])

\* the loop of _extract_differing_tagged_sentences from the sentence
\* global_index on
RECURSIVE DifferFrom(_, _, _, _)
DifferFrom(raw_text, tagged_texts, global_index, acc) ==
    IF global_index >= ZipLength(tagged_texts) THEN acc
    ELSE LET N == Len(tagged_texts)
             sentences == [k \in 1..N |-> tagged_texts[k][global_index + 1]]
             cleaned_sentences == [k \in 1..N |-> remove_ids_from_tags(sentences[k])]
             raw_sentence == raw_text[global_index + 1]
         IN IF \E k \in 2..N : cleaned_sentences[k] # cleaned_sentences[1]
            THEN DifferFrom(raw_text, tagged_texts, global_index + 1,
                   [comparison_sentences |->
                       [d \in 1..(N + 1) |->
                          Append(acc.comparison_sentences[d],
                                 IF d = 1 THEN raw_sentence ELSE sentences[d - 1])],
                    differing_to_global |-> Append(acc.differing_to_global, global_index),
                    common_text |->
                       [acc.common_text EXCEPT ![global_index + 1] = raw_sentence]])
            ELSE DifferFrom(raw_text, tagged_texts, global_index + 1, acc)

\* a differencing that takes every sentence for a comparison unit
EverySentenceDiffers(raw_text, tagged_texts, common_text) ==
    [comparison_sentences |-> <<raw_text>> \o tagged_texts,
     differing_to_global |-> [n \in 1..Len(raw_text) |-> n - 1],
     common_text |-> raw_text]

\* a differencing that records the units without their raw sentences
DifferencingWithoutRaw(raw_text, tagged_texts, common_text) ==
    [DifferFrom(raw_text, tagged_texts, 0,
                [comparison_sentences |-> [d \in 1..(Len(tagged_texts) + 1) |-> <<>>],
                 differing_to_global |-> <<>>,
                 common_text |-> common_text])
       EXCEPT !.comparison_sentences[1] = <<>>]

\* a differencing that compares the tagged sentences with their IDs
RECURSIVE DifferWithIdsFrom(_, _, _, _)
DifferWithIdsFrom(raw_text, tagged_texts, global_index, acc) ==
    IF global_index >= ZipLength(tagged_texts) THEN acc
    ELSE LET N == Len(tagged_texts)
             sentences == [k \in 1..N |-> tagged_texts[k][global_index + 1]]
             raw_sentence == raw_text[global_index + 1]
         IN IF \E k \in 2..N : sentences[k] # sentences[1]
            THEN DifferWithIdsFrom(raw_text, tagged_texts, global_index + 1,
                   [comparison_sentences |->
                       [d \in 1..(N + 1) |->
                          Append(acc.comparison_sentences[d],
                                 IF d = 1 THEN raw_sentence ELSE sentences[d - 1])],
                    differing_to_global |-> Append(acc.differing_to_global, global_index),
                    common_text |->
                       [acc.common_text EXCEPT ![global_index + 1] = raw_sentence]])
            ELSE DifferWithIdsFrom(raw_text, tagged_texts, global_index + 1, acc)

differencing_with_ids(raw_text, tagged_texts, common_text) ==
    DifferWithIdsFrom(raw_text, tagged_texts, 0,
               [comparison_sentences |-> [d \in 1..(Len(tagged_texts) + 1) |-> <<>>],
                differing_to_global |-> <<>>,
                common_text |-> common_text])

\* _extract_differing_tagged_sentences; common_text is self._common_text
_extract_differing_tagged_sentences(raw_text, tagged_texts, common_text) ==
    DifferFrom(raw_text, tagged_texts, 0,
               [comparison_sentences |-> [d \in 1..(Len(tagged_texts) + 1) |-> <<>>],
                differing_to_global |-> <<>>,
                common_text |-> common_text])

\* The renditions: MaxCommon or fewer sentences that every annotator has, the
\* first of them tagged in the annotator's way, then MaxExtra or fewer of the
\* annotator's own (the second annotator's tagged) or, for the first
\* annotator, the first sentence once more.
MaxCommon == 10

MaxExtra == 1

Sentence(j) == <<"a">> \o IntToStr(j)

Styles == {"plain", "T1", "T2", "E1"}

Styled(style, content) ==
    IF style = "T1" THEN Markup("T", <<"1">>, content)
    ELSE IF style = "T2" THEN Markup("T", <<"2">>, content)
    ELSE IF style = "E1" THEN Markup("E", <<"1">>, content)
    ELSE content

RECURSIVE ListsUpTo(_, _)
ListsUpTo(S, n) ==
    IF n = 0 THEN {<<>>}
    ELSE LET shorter == ListsUpTo(S, n - 1)
         IN shorter \cup {Append(l, x) : l \in shorter, x \in S}

\* no common sentence, one, or about as many as the threshold needs
CommonLengths == {0, 1} \cup ((MaxCommon - 2)..MaxCommon)

\* "".split("\n\n") is one empty sentence
Rendition(common, style, extra) ==
    LET sentences == [j \in 1..common |->
                        IF j = 1 THEN Styled(style, Sentence(1)) ELSE Sentence(j)]
                     \o extra
    IN IF sentences = <<>> THEN << <<>> >> ELSE sentences

\* two annotators' documents of two sentences that differ in the second
\* sentence's words
TwoSentenceTexts ==
    << << <<"T", "h", "e", " ", "c", "a", "t", " ", "s", "a", "t", ".">>,
          <<"I", "t", " ", "w", "a", "s", " ", "r", "e", "d", ".">> >>,
       << <<"T", "h", "e", " ", "c", "a", "t", " ", "s", "a", "t", ".">>,
          <<"I", "t", " ", "w", "a", "s", " ", "b", "l", "u", "e", ".">> >> >>

\* two documents of the same MaxCommon sentences, the second with its first
\* two sentences in the other order and a sentence of its own at the end
ReorderedTexts ==
    << [j \in 1..MaxCommon |-> Sentence(j)],
       [j \in 1..MaxCommon |-> IF j = 1 THEN Sentence(2)
                               ELSE IF j = 2 THEN Sentence(1) ELSE Sentence(j)]
       \o << <<"c">> >> >>

InitAlign ==
    /\ \E common \in CommonLengths, style1 \in Styles, style2 \in Styles,
          extra1 \in ListsUpTo({<<"b">>, Sentence(1)}, MaxExtra),
          extra2 \in ListsUpTo({Markup("T", <<"1">>, <<"b">>), <<"c">>}, MaxExtra),
          third \in BOOLEAN, align_option \in {"union", "intersection"} :
         LET first == Rendition(common, style1, extra1)
             second == Rendition(common, style2, extra2)
         IN \E texts \in {IF third THEN <<first, second, first>>
                                     ELSE <<first, second>>,
                           TwoSentenceTexts, ReorderedTexts} :
              al = [phase |-> "texts",
                    texts |-> texts,
                    align_option |-> align_option,
                    ok |-> TRUE, err |-> "",
                    aligned_texts |-> <<>>, aligned_clean_texts |-> <<>>,
                    common_text |-> <<>>, comparison_sentences |-> <<>>,
                    differing_to_global |-> <<>>]
    /\ heap = <<>> /\ text = <<>> /\ tags = <<>> /\ nextUuid = 1
    /\ last = NoLast /\ cm = Idle /\ cmd = Idle /\ rt = Idle

\* extract_comparison_data up to the alignment
AlignSimilarTexts ==
    /\ al.phase = "texts"
    /\ LET r == _align_similar_texts(al.texts, _extract_clean_texts(al.texts),
                                     al.align_option)
       IN al' = [al EXCEPT !.phase = "aligned", !.ok = r.ok, !.err = r.err,
                           !.aligned_texts = r.texts,
                           !.aligned_clean_texts = r.clean_texts,
                           !.common_text = r.texts[1]]
    /\ UNCHANGED <<heap, text, tags, nextUuid, last, cm, cmd, rt>>

\* extract_comparison_data's differencing of the aligned texts
ExtractDifferingTaggedSentences ==
    /\ al.phase = "aligned" /\ al.ok
    /\ LET d == _extract_differing_tagged_sentences(al.aligned_clean_texts[1],
                                                    al.aligned_texts, al.common_text)
       IN al' = [al EXCEPT !.phase = "differenced",
                           !.comparison_sentences = d.comparison_sentences,
                           !.differing_to_global = d.differing_to_global,
                           !.common_text = d.common_text]
    /\ UNCHANGED <<heap, text, tags, nextUuid, last, cm, cmd, rt>>

NextAlign == AlignSimilarTexts \/ ExtractDifferingTaggedSentences

SpecAlign == InitAlign /\ [][NextAlign]_vars

\* C9: identical texts come out of the alignment as they went in, every
\* sentence list unchanged and in order, and the differencing that follows
\* makes no comparison unit of them (differing_to_global is empty).
IdenticalTextsAlign ==
    (/\ al.phase \in {"aligned", "differenced"}
     /\ \A k \in 1..Len(al.texts) : al.texts[k] = al.texts[1])
    => /\ al.ok
       /\ al.aligned_texts = al.texts
       /\ al.phase = "differenced" =>
            /\ al.differing_to_global = <<>>
            /\ \A d \in 1..Len(al.comparison_sentences) :
                  al.comparison_sentences[d] = <<>>

\* three identical texts of several sentences, the first one tagged, have
\* been aligned and differenced
IdenticalTextsDifferenced ==
    /\ al.phase = "differenced"
    /\ Len(al.texts) = 3
    /\ \A k \in 1..3 : al.texts[k] = al.texts[1]
    /\ Len(al.texts[1]) >= 2
    /\ al.texts[1][1][1] = "<"

\* the clean-sentence sets of the texts being aligned
CleanSets == [k \in 1..Len(al.texts) |-> Range(_extract_clean_texts(al.texts)[k])]

\* C10: when the renditions' clean-sentence sets are not all the same, the
\* alignment fails for too little similarity exactly if for some rendition
\* the common sentences are less than 0.90 of its set; 9 of 10 do not fail.
SimilarityThresholdDecides ==
    (/\ al.phase \in {"aligned", "differenced"}
     /\ \E k \in 1..Len(al.texts) : CleanSets[k] # CleanSets[1])
    => ((~al.ok /\ al.err = "similarity")
        <=> \E k \in 1..Len(al.texts) :
               10 * Cardinality(CommonSentences(_extract_clean_texts(al.texts)))
                 < 9 * Cardinality(CleanSets[k]))

\* texts with 9 common sentences, one of them with 10 sentences, have passed
\* the similarity test
NineOfTenAligned ==
    /\ al.phase \in {"aligned", "differenced"}
    /\ Cardinality(CommonSentences(_extract_clean_texts(al.texts))) = 9
    /\ \E k \in 1..Len(al.texts) : Cardinality(CleanSets[k]) = 10
    /\ al.err # "similarity"

\* C11: for the two documents ["The cat sat.", "It was red."] and
\* ["The cat sat.", "It was blue."] under the union policy the comparison
\* setup succeeds, and its differencing yields exactly one comparison unit,
\* for sentence index 1, holding "It was red." against "It was blue."
\* (differing_to_global = [1]).
TwoSentenceScenarioYieldsOneUnit ==
    (/\ al.phase \in {"aligned", "differenced"}
     /\ al.texts = TwoSentenceTexts
     /\ al.align_option = "union")
    => /\ al.ok
       /\ al.phase = "differenced" =>
            /\ al.differing_to_global = <<1>>
            /\ Len(al.comparison_sentences) = 3
            /\ al.comparison_sentences[2] = <<TwoSentenceTexts[1][2]>>
            /\ al.comparison_sentences[3] = <<TwoSentenceTexts[2][2]>>

\* C12: get_sentence_offset is the character offset at which the sentence of
\* the current unit starts in the current merged text, also after adoptions
\* have changed that text: as many separators stand before it as the unit's
\* global index says, a separator ends right before it (or it is 0), and the
\* sentence from there on is, without its markup, the unit's sentence; for a
\* unit that follows the single sentence "The cat sat." it is 14.
SentenceOffsetIsSentenceStart ==
    LET offset == get_sentence_offset(cm, text)
        global_index == DifferingToGlobal[cm.current_index + 1]
        end == FindSub(text, Separator, offset)
        sentence == IF end = -1 THEN PyFrom(text, offset)
                    ELSE PySlice(text, offset, end)
    IN /\ offset >= 0
       /\ Cardinality({i \in 0..(offset - 2) :
                          PySlice(text, i, i + 2) = Separator}) = global_index
       /\ offset = 0 \/ PySlice(text, offset - 2, offset) = Separator
       /\ delete_all_tags_from_text(sentence) = MergedSentences[global_index + 1]
       /\ get_sentence_offset([current_index |-> 1],
                              <<"T", "h", "e", " ", "c", "a", "t", " ", "s", "a", "t", ".">>
                              \o Separator
                              \o <<"I", "t", " ", "w", "a", "s", " ", "r", "e", "d", ".">>) = 14

\* a second command was executed for the second unit after the adoption of
\* the first unit had put markup into the merged text
OffsetReadAfterAdoption ==
    /\ last.op = "execute" /\ last.ok
    /\ Len(cmd.undo) = 2
    /\ cmd.undo[2].executed
    /\ cmd.undo[2].sentence_offset > Len(MergedSentences[1]) + Len(Separator)

\* C13: whenever the alignment returns, under either policy and also by the
\* shortcut for equal clean-sentence sets, the aligned tagged lists and the
\* aligned clean lists of all renditions have the same length.
AlignedListsParallel ==
    (al.phase \in {"aligned", "differenced"} /\ al.ok)
    => \A k \in 1..Len(al.aligned_texts) :
          /\ Len(al.aligned_texts[k]) = Len(al.aligned_texts[1])
          /\ Len(al.aligned_clean_texts[k]) = Len(al.aligned_texts[1])

\* C14: in the comparison data the setup produces, all lists of
\* comparison_sentences have the same length, differing_to_global is strictly
\* increasing, and it is as long as comparison_sentences[0].
ComparisonDataParallel ==
    al.phase = "differenced"
    => /\ \A d \in 1..Len(al.comparison_sentences) :
             Len(al.comparison_sentences[d]) = Len(al.comparison_sentences[1])
       /\ \A m, n \in 1..Len(al.differing_to_global) :
             m < n => al.differing_to_global[m] < al.differing_to_global[n]
       /\ Len(al.differing_to_global) = Len(al.comparison_sentences[1])

\* the differencing has made two comparison units of three renditions
TwoUnitsDifferenced ==
    /\ al.phase = "differenced"
    /\ Len(al.texts) = 3
    /\ Len(al.differing_to_global) = 2

\* C15: after set_comparison_data, current_index is 0 and adopted_flags holds
\* exactly one flag per comparison unit, as many as comparison_sentences[0]
\* has sentences, all of them False.
OneFlagPerUnit ==
    last.op = "init"
    => /\ cm.current_index = 0
       /\ Len(cm.adopted_flags) = Len(ComparisonSentences[1])
       /\ \A n \in 1..Len(cm.adopted_flags) : ~cm.adopted_flags[n]

---------------------------------------------------------------------------
(* One adopt command called in any order.  cmd.undo holds the command, and  *)
(* cmd.phase follows the calls: "new" until execute() is called, "applied"  *)
(* after execute() or a redo() that followed an undo(), "undone" after an   *)
(* undo() of applied tags.  Calls go on after a call that raised; cmd.calls  *)
(* counts them, up to MaxCalls.                                             *)

MaxCalls == 5

\* AdoptAnnotationCommand(...) for the current unit of one annotator whose
\* sentence perform_adopt_annotation accepts
MakeCommand ==
    /\ cmd.made = 0
    /\ \E adoption_index \in 1..(Len(ComparisonSentences) - 1) :
         /\ ~is_sentence_unmergable(
                 ComparisonSentences[adoption_index + 1][cm.current_index + 1])
         /\ cmd' = execute_command(cmd, NewCommand(cm.docs[adoption_index + 1], cm,
                                                heap, text, tags))
                @@ [phase |-> "new", calls |-> 0]
    /\ last' = [last EXCEPT !.op = "make", !.ok = TRUE, !.err = ""]
    /\ UNCHANGED <<heap, text, tags, nextUuid, cm, rt, al>>

\* execute(), undo() or redo() of the command
CommandCall ==
    /\ cmd.made = 1
    /\ cmd.calls < MaxCalls
    /\ \E op \in {"execute", "undo", "redo"} :
         LET command == cmd.undo[1]
             phase == IF op = "execute" /\ cmd.phase = "new" THEN "applied"
                      ELSE IF op = "undo" /\ cmd.phase = "applied" THEN "undone"
                      ELSE IF op = "redo" /\ cmd.phase = "undone" THEN "applied"
                      ELSE cmd.phase
             stacks == [cmd EXCEPT !.phase = phase, !.calls = @ + 1]
             Called(r) ==
                 /\ Leave(r, stacks, "undo", op)
                 /\ heap' = Collect(r.heap, Held(r.tags, r.cm.docs, stacks))
                 /\ cm' = r.cm
         IN Called(IF op = "execute"
                   THEN execute(command, heap, text, tags, cm, nextUuid)
                   ELSE IF op = "undo"
                   THEN undo(command, heap, text, tags, cm, nextUuid)
                   ELSE redo(command, heap, text, tags, cm, nextUuid))

\* perform_next_sentence, before the command is made or after its first call
NavigateAroundCommand ==
    /\ IF cmd.made = 0 THEN TRUE ELSE cmd.phase # "new" /\ cmd.calls < MaxCalls
    /\ PerformNextSentence

NextCommand == MakeCommand \/ CommandCall \/ NavigateAroundCommand

SpecCommand == InitAdopt /\ [][NextCommand]_vars

\* C16: of the calls on one adopt command, execute() has an effect only the
\* first time it is called, undo() only while the command's tags are applied,
\* redo() only after an undo() that had an effect; every other call leaves the
\* merged document and the adoption flags as they are, and no tag of the
\* command is in the document twice or deleted when it is not there.
CommandCallsIdempotent ==
    [][(cmd.made = 1 /\ last'.op \in {"execute", "undo", "redo"}) =>
          /\ cmd'.phase = cmd.phase
                => /\ text' = text
                   /\ TagList(heap', tags') = TagList(heap, tags)
                   /\ cm'.adopted_flags = cm.adopted_flags
          /\ \A j, k \in 1..Len(tags') : j # k => tags'[j] # tags'[k]
          /\ last'.err # "unknown_tag"]_vars

---------------------------------------------------------------------------
(* Navigation of the comparison model over any number of units.  The model  *)
(* is cm = [current_index, comparison_sentences]; last holds the call, the  *)
(* index before it and the list it returned.                                *)

MaxUnits == 3

NavSentences == {<<"a">>, <<"b">>}

\* the comparison_sentences the model can hold: no list at all, or the raw list
\* and one annotator's list, of equally many units
NavData ==
    {<<>>} \cup {<<raw, tagged>> : raw, tagged \in ListsUpTo(NavSentences, MaxUnits)}

previous_sentences_clamped(c) ==
    LET cs == c.comparison_sentences
        Moved(index) ==
            [cm |-> [c EXCEPT !.current_index = index],
             result |-> [d \in 1..Len(cs) |-> cs[d][index + 1]]]
    IN IF cs = <<>> THEN [cm |-> c, result |-> <<>>]
       ELSE IF cs[1] = <<>> THEN [cm |-> c, result |-> <<>>]
       ELSE Moved(IF c.current_index = 0 THEN 0 ELSE c.current_index - 1)

next_sentences(c) ==
    LET cs == c.comparison_sentences
        Moved(index) ==
            [cm |-> [c EXCEPT !.current_index = index],
             result |-> [d \in 1..Len(cs) |-> cs[d][index + 1]]]
    IN IF cs = <<>> THEN [cm |-> c, result |-> <<>>]
       ELSE IF cs[1] = <<>> THEN [cm |-> c, result |-> <<>>]
       ELSE Moved((c.current_index + 1) % Len(cs[1]))

previous_sentences(c) ==
    LET cs == c.comparison_sentences
        Moved(index) ==
            [cm |-> [c EXCEPT !.current_index = index],
             result |-> [d \in 1..Len(cs) |-> cs[d][index + 1]]]
    IN IF cs = <<>> THEN [cm |-> c, result |-> <<>>]
       ELSE IF cs[1] = <<>> THEN [cm |-> c, result |-> <<>>]
       ELSE Moved((c.current_index - 1) % Len(cs[1]))

\* set_comparison_data: the index starts at 0
InitNav ==
    /\ \E cs \in NavData :
         /\ cs # <<>> => Len(cs[1]) = Len(cs[2])
         /\ cm = [current_index |-> 0, comparison_sentences |-> cs]
    /\ last = [op |-> "set_comparison_data", from |-> 0, result |-> <<>>]
    /\ heap = <<>> /\ text = <<>> /\ tags = <<>> /\ nextUuid = 1
    /\ cmd = Idle /\ rt = Idle /\ al = Idle

NextSentences ==
    LET Moved(r) ==
            /\ cm' = r.cm
            /\ last' = [op |-> "next_sentences", from |-> cm.current_index,
                        result |-> r.result]
    IN /\ Moved(next_sentences(cm))
       /\ UNCHANGED <<heap, text, tags, nextUuid, cmd, rt, al>>

PreviousSentences ==
    LET Moved(r) ==
            /\ cm' = r.cm
            /\ last' = [op |-> "previous_sentences", from |-> cm.current_index,
                        result |-> r.result]
    IN /\ Moved(previous_sentences(cm))
       /\ UNCHANGED <<heap, text, tags, nextUuid, cmd, rt, al>>

NextNav == NextSentences \/ PreviousSentences

SpecNav == InitNav /\ [][NextNav]_vars

\* the number of comparison units
UnitCount(c) ==
    IF c.comparison_sentences = <<>> THEN 0 ELSE Len(c.comparison_sentences[1])

\* C17: with n > 0 units next_sentences moves current_index one unit on and
\* from the last unit to the first, previous_sentences one unit back and from
\* the first unit to the last, so the index stays in 0..n-1 and a
\* previous_sentences after a next_sentences is back at the same unit; with no
\* unit both return an empty list and leave the index as it is.
NavigationWraps ==
    LET n == UnitCount(cm)
        i == last.from
    IN /\ n > 0 => cm.current_index \in 0..(n - 1)
       /\ (last.op = "next_sentences" /\ n > 0)
            => /\ cm.current_index = IF i = n - 1 THEN 0 ELSE i + 1
               /\ previous_sentences(cm).cm.current_index = i
               /\ last.result = [d \in 1..2 |-> cm.comparison_sentences[d][cm.current_index + 1]]
       /\ (last.op = "previous_sentences" /\ n > 0)
            => /\ cm.current_index = IF i = 0 THEN n - 1 ELSE i - 1
               /\ next_sentences(cm).cm.current_index = i
               /\ last.result = [d \in 1..2 |-> cm.comparison_sentences[d][cm.current_index + 1]]
       /\ (last.op # "set_comparison_data" /\ n = 0)
            => last.result = <<>> /\ cm.current_index = i

\* previous_sentences at the first of three units has moved to the last one
WrappedBackToLastUnit ==
    /\ last.op = "previous_sentences"
    /\ UnitCount(cm) = MaxUnits
    /\ last.from = 0
    /\ cm.current_index = MaxUnits - 1

\* C18: perform_adopt_annotation is refused when the current unit is already
\* adopted or the chosen annotator's sentence has a tag with a reference: a
\* command is made and executed only for a unit not yet adopted and tags
\* without references, and a refusal leaves the merged document, the stacks,
\* the adoption flags and the current index as they are.
AdoptionRefused ==
    [][/\ last'.op = "refused"
            => /\ text' = text /\ TagList(heap', tags') = TagList(heap, tags)
               /\ cmd' = cmd
               /\ cm'.adopted_flags = cm.adopted_flags
               /\ cm'.current_index = cm.current_index
       /\ last'.op = "execute"
            => /\ ~cm.adopted_flags[cm.current_index + 1]
               /\ Len(cmd'.undo) = Len(cmd.undo) + 1
               /\ \A n \in 1..Len(cmd'.undo[Len(cmd'.undo)].tag_models) :
                     heap[cmd'.undo[Len(cmd'.undo)].tag_models[n]].references = <<>>]_vars

\* a request refused for its references, after an adoption, at a unit that is
\* not adopted
RefusedForReferences ==
    /\ last.op = "refused"
    /\ cmd.made > 0
    /\ ~cm.adopted_flags[cm.current_index + 1]

\* seq keeps the members of sub in sub's order
RECURSIVE IsSubsequence(_, _)
IsSubsequence(sub, seq) ==
    IF sub = <<>> THEN TRUE
    ELSE IF seq = <<>> THEN FALSE
    ELSE IF sub[1] = seq[1] THEN IsSubsequence(Tail(sub), Tail(seq))
    ELSE IsSubsequence(sub, Tail(seq))

\* the alignment has gone past the test of identical sets and the similarity
\* test, into the walk over the texts
WalkPerformed ==
    /\ al.phase \in {"aligned", "differenced"}
    /\ \E k \in 1..Len(al.texts) : CleanSets[k] # CleanSets[1]
    /\ al.err # "similarity"

\* C19: under the union policy, texts that pass the similarity test are
\* aligned: the alignment returns, every rendition's sentences are in the
\* aligned sequence in the rendition's order, also when a rendition has
\* sentences of its own at its end or when no current sentence is a candidate.
UnionKeepsEverySentence ==
    (WalkPerformed /\ al.align_option = "union")
    => /\ al.ok
       /\ \A k \in 1..Len(al.texts) :
             IsSubsequence(_extract_clean_texts(al.texts)[k], al.aligned_clean_texts[1])

\* C20: under the intersection policy, when the walk over the texts is made
\* and returns, every sentence of the aligned texts is, without its markup, a
\* sentence of every rendition: a sentence some rendition lacks is skipped,
\* never appended.
IntersectionKeepsOnlyCommon ==
    (WalkPerformed /\ al.align_option = "intersection" /\ al.ok)
    => \A k \in 1..Len(al.aligned_texts) :
          /\ Len(al.aligned_texts[k]) = Len(al.aligned_clean_texts[k])
          /\ \A n \in 1..Len(al.aligned_texts[k]) :
                /\ delete_all_tags_from_text(al.aligned_texts[k][n])
                     \in CommonSentences(_extract_clean_texts(al.texts))
                /\ al.aligned_clean_texts[k][n]
                     \in CommonSentences(_extract_clean_texts(al.texts))

\* an intersection walk has returned without the sentence one rendition has
\* of its own
OwnSentenceSkipped ==
    /\ WalkPerformed /\ al.align_option = "intersection" /\ al.ok
    /\ \E k \in 1..Len(al.texts) : Len(al.aligned_texts[k]) < Len(al.texts[k])
    /\ Len(al.aligned_texts[1]) >= 2

---------------------------------------------------------------------------
(* TagManager called with any arguments: delete_tag also with a uuid that  *)
(* no tag of the document has, edit_tag also with the data of the current  *)
(* selection (the form's position and text), which may lie elsewhere than  *)
(* the edited tag.  last.data is the tag data an edit_tag was called with, *)
(* last.from the position the edited tag had.                              *)

\* the position and text the form hands over: the edited tag's own, or one
\* selected character of the text
EditPlaces(old) ==
    {[position |-> old.position, text |-> old.text]}
    \cup {[position |-> p, text |-> <<text[p + 1]>>] : p \in PlainPositions(text)}

\* TagManager.edit_tag with the form's data
EditTagWithData ==
    /\ Len(heap) < MaxObjs
    /\ \E j \in 1..Len(tags), idc \in IdChoices :
         \E place \in EditPlaces(heap[tags[j]]) :
         \E ref \in RefChoices(heap[tags[j]].tag_type, heap, tags) :
           LET old == heap[tags[j]]
               oid == Len(heap) + 1
               data == TagData(old.tag_type, idc, ref, place.position, place.text)
               Edited(r) ==
                   /\ Apply(r)
                   /\ last' = Outcome("edit", r, oid, old.uuid, idc)
                              @@ [data |-> data, from |-> old.position]
           IN Edited(edit_tag(Append(heap, data), text, tags, old.uuid, oid))
    /\ UNCHANGED <<nextUuid, cm, cmd, rt, al>>

\* TagManager.delete_tag with a uuid that no tag has or ever had
DeleteUnknownTag ==
    /\ LET Deleted(r) ==
               /\ Apply(r)
               /\ last' = Outcome("delete", r, 0, nextUuid, NoId)
       IN Deleted(delete_tag(heap, text, tags, nextUuid))
    /\ UNCHANGED <<nextUuid, cm, cmd, rt, al>>

NextManager == AddTag \/ DeleteTag \/ EditTagWithData \/ DeleteUnknownTag

SpecManager == Init /\ [][NextManager]_vars

\* C21: an edit_tag that returns has done what delete_tag of the uuid followed
\* by add_tag of the new data under that uuid does: the document has as many
\* tags as before, exactly one of them with the edited uuid, and text, IDs and
\* references are those of the deletion and addition.
EditIsDeleteThenAdd ==
    [][(last'.op = "edit" /\ last'.ok) =>
          LET uuid == last'.uuid
              oid == Len(heap) + 1
              Same(r) == /\ r.ok
                         /\ text' = r.text
                         /\ TagList(heap', tags') = TagList(r.heap, r.tags)
              Added(del) ==
                  /\ del.ok
                  /\ Same(add_tag(del.heap, del.text, del.tags, oid, uuid))
          IN /\ Len(tags') = Len(tags)
             /\ \E j \in 1..Len(tags) : heap[tags[j]].uuid = uuid
             /\ Cardinality({j \in 1..Len(tags') : heap'[tags'[j]].uuid = uuid}) = 1
             /\ Added(delete_tag(Append(heap, [last'.data EXCEPT !.uuid = uuid]),
                                 text, tags, uuid))]_vars

\* an edit_tag with the data of a selection has returned in a document of two
\* tags
EditedAtSelection ==
    /\ last.op = "edit" /\ last.ok
    /\ last.data.position # last.from
    /\ Len(tags) = 2

\* C22: delete_tag with a uuid that no tag of the document has fails for the
\* unknown tag and leaves the tag list, the text, the positions, the IDs and
\* the reference counts as they are.
DeleteUnknownChangesNothing ==
    [][(/\ last'.op = "delete"
        /\ \A j \in 1..Len(tags) : heap[tags[j]].uuid # last'.uuid) =>
          /\ ~last'.ok /\ last'.err = "unknown_tag"
          /\ text' = text
          /\ tags' = tags
          /\ TagList(heap', tags') = TagList(heap, tags)]_vars

\* delete_tag has failed for an unknown uuid in a document of two tags, one
\* referencing the other
DeleteUnknownFailed ==
    /\ last.op = "delete" /\ last.err = "unknown_tag"
    /\ Len(tags) = 2
    /\ \E j \in 1..Len(tags) : heap[tags[j]].rc > 0

\* C23: an edit_tag that fails, also after its deletion was done, leaves the
\* document's tag list, text and reference counts as they were before.
FailedEditChangesNothing ==
    [][(last'.op = "edit" /\ ~last'.ok) =>
          /\ text' = text
          /\ TagList(heap', tags') = TagList(heap, tags)]_vars

---------------------------------------------------------------------------
(* TagProcessor's text edits on their own: a text of a few pieces, a tag    *)
(* with a position inside, before or behind the text, and one call.         *)

MaxTextPieces == 3

TextPieces == {<<"a">>, <<"b">>, Markup("T", <<"1">>, <<"a">>)}

RECURSIVE PieceTexts(_)
PieceTexts(n) ==
    IF n = 0 THEN {<<>>}
    ELSE LET shorter == PieceTexts(n - 1)
         IN shorter \cup {t \o q : t \in shorter, q \in TextPieces}

\* the tags handed to the text edits: with and without inner text
ProcessorTags(txt) ==
    {TagData("T", <<"2">>, NoId, position, tag_text) :
        position \in (-2)..(Len(txt) + 1), tag_text \in {<<>>, <<"a">>}}

InitProcessor ==
    /\ \E txt \in PieceTexts(MaxTextPieces) : \E tag \in ProcessorTags(txt) :
         rt = [phase |-> "input", T |-> txt, tag |-> tag, ok |-> TRUE, out |-> <<>>]
    /\ heap = <<>> /\ text = <<>> /\ tags = <<>> /\ nextUuid = 1
    /\ last = NoLast /\ cm = Idle /\ cmd = Idle /\ al = Idle

InsertTagIntoText ==
    /\ rt.phase = "input"
    /\ LET Inserted(r) ==
               rt' = [rt EXCEPT !.phase = "inserted", !.ok = r.ok, !.out = r.text]
       IN Inserted(insert_tag_into_text(rt.T, rt.tag))
    /\ UNCHANGED <<heap, text, tags, nextUuid, last, cm, cmd, al>>

UpdateTag ==
    /\ rt.phase = "input"
    /\ LET Updated(r) ==
               rt' = [rt EXCEPT !.phase = "updated", !.ok = r.ok, !.out = r.text]
       IN Updated(update_tag(rt.T, rt.tag))
    /\ UNCHANGED <<heap, text, tags, nextUuid, last, cm, cmd, al>>

NextProcessor == InsertTagIntoText \/ UpdateTag

SpecProcessor == InitProcessor /\ [][NextProcessor]_vars

\* the index a Python slice bound p stands for in a text of length n
SliceBound(p, n) == IF p < 0 THEN Max(n + p, 0) ELSE Min(p, n)

\* C24: insert_tag_into_text fails for a text mismatch exactly when
\* text[position : position + len(tag.text)] differs from tag.text; otherwise it
\* returns the text with that span replaced by the tag's markup, everything
\* before and after the span as it was.
InsertReplacesSpan ==
    rt.phase = "inserted" =>
        LET T == rt.T
            p == rt.tag.position
            n == Len(rt.tag.text)
            q == SliceBound(p, Len(T))
            e == SliceBound(p + n, Len(T))
            span == [i \in 1..(IF e > q THEN e - q ELSE 0) |-> T[q + i]]
            markup == TagStr(rt.tag)
        IN /\ ~rt.ok <=> span # rt.tag.text
           /\ ~rt.ok => rt.out = T
           /\ rt.ok =>
                /\ Len(rt.out) = Len(T) - n + Len(markup)
                /\ \A i \in 1..q : rt.out[i] = T[i]
                /\ \A i \in 1..Len(markup) : rt.out[q + i] = markup[i]
                /\ \A i \in (q + n + 1)..Len(T) : rt.out[i - n + Len(markup)] = T[i]

\* a tag has been put around an "a" that has text and markup before and
\* behind it
InsertedInside ==
    /\ rt.phase = "inserted" /\ rt.ok
    /\ rt.tag.text # <<>>
    /\ rt.tag.position > 1
    /\ rt.tag.position + 1 < Len(rt.T)

\* C25: update_tag replaces the markup that starts at tag.position and fails
\* when no tag-shaped markup starts there; markup that starts at another
\* offset, such as a later tag's, is never rewritten.
UpdateOnlyAtPosition ==
    (rt.phase = "updated" /\ rt.tag.position \in 0..Len(rt.T)) =>
        LET T == rt.T
            p == rt.tag.position
            end == TagShapedMatchAt(T, p)
        IN /\ rt.ok <=> end # -1
           /\ ~rt.ok => rt.out = T
           /\ rt.ok => rt.out = SubSeq(T, 1, p) \o TagStr(rt.tag)
                                \o SubSeq(T, end + 1, Len(T))

---------------------------------------------------------------------------
(* The walk of _align_similar_texts, one pass of its while loop per step.   *)
(* al holds the texts, the cursors (sentence_indices) and the aligned       *)
(* lists, and what the last pass did: its kind, its current sentences, its  *)
(* candidates and the cursors it advanced.                                  *)

\* one pass of the while loop from the cursors and aligned lists of w
AlignStep(texts, clean_texts, w, align_option) ==
    LET N == Len(texts)
        sentence_indices == w.sentence_indices
        current_elements ==
            [k \in 1..N |-> IF sentence_indices[k] < Len(clean_texts[k])
                            THEN clean_texts[k][sentence_indices[k] + 1]
                            ELSE <<>>]
        similar == \A k \in 2..N : current_elements[k] = current_elements[1]
        buffers == [k \in 1..N |->
                      PySlice(clean_texts[k], sentence_indices[k] + 1,
                              sentence_indices[k] + _max_lookahead)]
        next_candidates ==
            SelectSeq([k \in 1..N |-> k],
                      LAMBDA k : \A b \in 1..N :
                                    ~InList(current_elements[k], buffers[b]))
        Count(sentence) ==
            Cardinality({n \in 1..Len(next_candidates) :
                            current_elements[next_candidates[n]] = sentence})
        unique == \A n \in 1..Len(next_candidates) :
                     current_elements[next_candidates[n]]
                       = current_elements[next_candidates[1]]
        first_most == CHOOSE n \in 1..Len(next_candidates) :
                        /\ \A m \in 1..Len(next_candidates) :
                              Count(current_elements[next_candidates[m]])
                                <= Count(current_elements[next_candidates[n]])
                        /\ \A m \in 1..(n - 1) :
                              Count(current_elements[next_candidates[m]])
                                < Count(current_elements[next_candidates[n]])
        most_frequent_sentence == current_elements[next_candidates[first_most]]
        kept == IF unique THEN next_candidates
                ELSE SelectSeq(next_candidates,
                         LAMBDA k : current_elements[k] = most_frequent_sentence)
        text_index == kept[1]
        Advance(S) == [k \in 1..N |-> IF k \in S THEN sentence_indices[k] + 1
                                      ELSE sentence_indices[k]]
        Pass(status, err, kind, advanced, appended) ==
            [status |-> status, err |-> err, kind |-> kind,
             current_elements |-> current_elements,
             candidates |-> IF kind = "similar" THEN <<>> ELSE next_candidates,
             advanced |-> advanced,
             sentence_indices |-> Advance(advanced),
             aligned_texts |->
                 [k \in 1..N |-> w.aligned_texts[k]
                                   \o [n \in 1..Len(appended) |-> appended[n][1][k]]],
             aligned_clean_texts |->
                 [k \in 1..N |-> w.aligned_clean_texts[k]
                                   \o [n \in 1..Len(appended) |-> appended[n][2][k]]]]
    IN IF ~(\E k \in 1..N : sentence_indices[k] < Len(clean_texts[k]))
       THEN Pass("returned", "", "", {}, <<>>)
       ELSE IF similar
       THEN IF \E k \in 1..N : sentence_indices[k] >= Len(texts[k])
            THEN Pass("raised", "index", "similar", {}, <<>>)
            ELSE Pass("walking", "", "similar", 1..N,
                      << << [k \in 1..N |-> texts[k][sentence_indices[k] + 1]],
                            [k \in 1..N |-> clean_texts[k][sentence_indices[k] + 1]] >> >>)
       ELSE IF next_candidates = <<>>
       THEN Pass("raised",
                 IF align_option = "intersection" THEN "ambiguous" ELSE "no_option",
                 "none", {}, <<>>)
       ELSE IF align_option = "intersection"
       THEN Pass("walking", "", "skip", Range(next_candidates), <<>>)
       ELSE IF sentence_indices[text_index] >= Len(texts[text_index])
       THEN Pass("raised", "index", "union", {}, <<>>)
       ELSE Pass("walking", "", "union", Range(kept),
                 << << [k \in 1..N |-> texts[text_index][sentence_indices[text_index] + 1]],
                       [k \in 1..N |->
                           clean_texts[text_index][sentence_indices[text_index] + 1]] >> >>)

\* cursor steps past the end of a text that a walk is followed for
MaxOverrun == 3

\* two documents, the first with a sentence of its own twice at its end
RepeatedOwnSentenceTexts ==
    << [j \in 1..(MaxCommon - 1) |-> Sentence(j)] \o << <<"b">>, <<"b">> >>,
       [j \in 1..(MaxCommon - 1) |-> Sentence(j)] >>

\* two documents: the first starts with a sentence that the second has as the
\* _max_lookahead-th sentence after its first one
LateReappearanceTexts ==
    << << <<"b">> >> \o [j \in 1..10 |-> Sentence(j)],
       [j \in 1..10 |-> Sentence(j)] \o << <<"b">>, <<"c">> >> >>

\* the texts walked: renditions of MaxCommon - 1 common sentences with and
\* without sentences of their own, two or three of them, and the documents
\* above
WalkTexts ==
    LET firsts == {Rendition(MaxCommon - 1, style, extra) :
                      style \in {"plain", "T1"},
                      extra \in ListsUpTo({<<"b">>, Sentence(1)}, MaxExtra)}
        seconds == {Rendition(MaxCommon - 1, "plain", extra) :
                       extra \in ListsUpTo({<<"c">>}, MaxExtra)}
    IN {<<first, second>> : first \in firsts, second \in seconds}
       \cup {<<first, second, first>> : first \in firsts, second \in seconds}
       \cup {ReorderedTexts, RepeatedOwnSentenceTexts, LateReappearanceTexts}

InitWalk ==
    /\ \E texts \in WalkTexts, align_option \in {"union", "intersection"} :
         al = [phase |-> "texts", texts |-> texts,
               clean_texts |-> _extract_clean_texts(texts),
               align_option |-> align_option, err |-> "", kind |-> "",
               current_elements |-> <<>>, candidates |-> <<>>, advanced |-> {},
               sentence_indices |-> [k \in 1..Len(texts) |-> 0],
               aligned_texts |-> [k \in 1..Len(texts) |-> <<>>],
               aligned_clean_texts |-> [k \in 1..Len(texts) |-> <<>>]]
    /\ heap = <<>> /\ text = <<>> /\ tags = <<>> /\ nextUuid = 1
    /\ last = NoLast /\ cm = Idle /\ cmd = Idle /\ rt = Idle

\* _align_similar_texts up to its while loop: the test of identical sets and
\* the similarity test
BeginWalk ==
    /\ al.phase = "texts"
    /\ LET clean_text_sets == [k \in 1..Len(al.texts) |-> Range(al.clean_texts[k])]
           common_sentences == CommonSentences(al.clean_texts)
       IN IF \A k \in 1..Len(al.texts) : clean_text_sets[k] = common_sentences
          THEN al' = [al EXCEPT !.phase = "returned",
                                !.aligned_texts = al.texts,
                                !.aligned_clean_texts = al.clean_texts]
          ELSE IF ~(\A k \in 1..Len(al.texts) :
                       MeetsThreshold(Cardinality(common_sentences),
                                      Cardinality(clean_text_sets[k])))
          THEN al' = [al EXCEPT !.phase = "raised", !.err = "similarity"]
          ELSE al' = [al EXCEPT !.phase = "walking"]
    /\ UNCHANGED <<heap, text, tags, nextUuid, last, cm, cmd, rt>>

\* one pass of the while loop
WalkStep ==
    /\ al.phase = "walking"
    /\ \A k \in 1..Len(al.texts) :
          al.sentence_indices[k] <= Len(al.clean_texts[k]) + MaxOverrun
    /\ LET Passed(r) ==
               al' = [al EXCEPT !.phase = r.status, !.err = r.err, !.kind = r.kind,
                                !.current_elements = r.current_elements,
                                !.candidates = r.candidates,
                                !.advanced = r.advanced,
                                !.sentence_indices = r.sentence_indices,
                                !.aligned_texts = r.aligned_texts,
                                !.aligned_clean_texts = r.aligned_clean_texts]
       IN Passed(AlignStep(al.texts, al.clean_texts, al, al.align_option))
    /\ UNCHANGED <<heap, text, tags, nextUuid, last, cm, cmd, rt>>

NextWalk == BeginWalk \/ WalkStep

SpecWalk == InitWalk /\ [][NextWalk]_vars

\* C26: the walk ends for every input under both policies: each pass of the
\* loop either fails with an error or moves on at least one cursor that has
\* not reached the end of its text, also when one text is at its end while
\* another text's current sentence comes again within its own lookahead.
EveryPassAdvances ==
    [][(al.phase = "walking" /\ al'.phase = "walking") =>
          \E k \in 1..Len(al.texts) :
             /\ al.sentence_indices[k] < Len(al.clean_texts[k])
             /\ al'.sentence_indices[k] = al.sentence_indices[k] + 1]_vars

\* a pass of the loop has just been made
PassMade == al.phase = "walking" /\ al'.kind # ""

\* C27: when the current sentences are not all identical and every one of
\* them reappears ahead, alignment fails with the ambiguous-alignment error
\* under the intersection policy, and under the union policy that situation
\* produces no error.
NoCandidateOutcome ==
    [][(/\ PassMade
        /\ \E k \in 1..Len(al.texts) :
              al'.current_elements[k] # al'.current_elements[1]
        /\ al'.candidates = <<>>)
       => IF al.align_option = "intersection"
          THEN al'.phase = "raised" /\ al'.err = "ambiguous"
          ELSE al'.phase # "raised"]_vars

\* the sentence under text k's cursor occurs among the next n sentences after
\* the cursor of one of the texts in others
OccursAhead(clean_texts, sentence_indices, k, n, others) ==
    \E b \in others :
       \E j \in (sentence_indices[b] + 2)..(sentence_indices[b] + 1 + n) :
          /\ j <= Len(clean_texts[b])
          /\ sentence_indices[k] < Len(clean_texts[k])
          /\ clean_texts[b][j] = clean_texts[k][sentence_indices[k] + 1]

\* C28: in a pass of the walk a text's current sentence reappears ahead
\* exactly when it occurs among the next 10 clean sentences after the cursor
\* of another text, occurrences later in its own text do not count, and the
\* next-candidates are exactly the texts whose sentence does not reappear.
CandidatesAreNotAheadElsewhere ==
    [][(PassMade /\ al'.kind # "similar") =>
          Range(al'.candidates)
            = {k \in 1..Len(al.texts) :
                  ~OccursAhead(al.clean_texts, al.sentence_indices, k,
                               _max_lookahead, (1..Len(al.texts)) \ {k})}]_vars

\* the most frequent sentence among the candidates of the pass just made, the
\* first of them in candidate order when several are as frequent
MostFrequentCandidate ==
    LET c == al'.candidates
        cur == al'.current_elements
        Times(n) == Cardinality({m \in 1..Len(c) : cur[c[m]] = cur[c[n]]})
        first == CHOOSE n \in 1..Len(c) :
                    /\ \A m \in 1..Len(c) : Times(m) <= Times(n)
                    /\ \A m \in 1..(n - 1) : Times(m) < Times(n)
    IN cur[c[first]]

\* a pass under the union policy whose candidates are not all the same sentence
UnionPassWithDifferentCandidates ==
    /\ PassMade
    /\ al.align_option = "union"
    /\ al'.kind # "similar"
    /\ \E n \in 1..Len(al'.candidates) :
          al'.current_elements[al'.candidates[n]]
            # al'.current_elements[al'.candidates[1]]

\* C29: under the union policy, when the candidates are not all the same
\* sentence, the most frequent one is chosen (the first in candidate order on
\* a tie), it is appended to every text's aligned output, and exactly the
\* cursors whose current sentence is the chosen one move on by one.
UnionChoosesMostFrequent ==
    [][UnionPassWithDifferentCandidates =>
          /\ al'.phase = "walking"
          /\ \A k \in 1..Len(al.texts) :
                /\ al'.aligned_clean_texts[k]
                     = Append(al.aligned_clean_texts[k], MostFrequentCandidate)
                /\ Len(al'.aligned_texts[k]) = Len(al.aligned_texts[k]) + 1
                /\ al'.aligned_texts[k][Len(al'.aligned_texts[k])]
                     = al'.aligned_texts[1][Len(al'.aligned_texts[1])]
                /\ al'.sentence_indices[k]
                     = IF al'.current_elements[k] = MostFrequentCandidate
                       THEN al.sentence_indices[k] + 1
                       ELSE al.sentence_indices[k]]_vars

\* the aligned positions that every text has a sentence at, counted from 0
AlignedPositions ==
    {g \in 0..(Len(al.aligned_texts[1]) - 1) :
        \A k \in 1..Len(al.aligned_texts) : g < Len(al.aligned_texts[k])}

\* the texts' tagged sentences at position g are not all the same once their
\* IDs are taken out
DiffersWithoutIds(g) ==
    \E k \in 1..Len(al.aligned_texts) :
       remove_ids_from_tags(al.aligned_texts[k][g + 1])
         # remove_ids_from_tags(al.aligned_texts[1][g + 1])

\* C30: the differencing records an aligned position g in differing_to_global
\* if and only if the ID-stripped tagged sentences of the texts at g are not
\* all identical, and for each recorded position the unit holds the raw
\* untagged sentence at index 0 and text r's own tagged sentence at index
\* r + 1.
DifferencingRecordsDifferences ==
    al.phase = "differenced" =>
       /\ Range(al.differing_to_global)
            = {g \in AlignedPositions : DiffersWithoutIds(g)}
       /\ \A u \in 1..Len(al.differing_to_global), v \in 1..Len(al.differing_to_global) :
             u < v => al.differing_to_global[u] < al.differing_to_global[v]
       /\ Len(al.comparison_sentences) = Len(al.aligned_texts) + 1
       /\ \A d \in 1..Len(al.comparison_sentences) :
             Len(al.comparison_sentences[d]) = Len(al.differing_to_global)
       /\ \A u \in 1..Len(al.differing_to_global) :
             /\ al.comparison_sentences[1][u]
                  = al.aligned_clean_texts[1][al.differing_to_global[u] + 1]
             /\ \A k \in 1..Len(al.aligned_texts) :
                   al.comparison_sentences[k + 1][u]
                     = al.aligned_texts[k][al.differing_to_global[u] + 1]

\* three texts have been differenced: a position whose tagged sentences differ
\* in their IDs only is not recorded, a position whose tags differ is
DifferencedApartFromIds ==
    /\ al.phase = "differenced"
    /\ Len(al.aligned_texts) = 3
    /\ al.differing_to_global # <<>>
    /\ \E g \in AlignedPositions :
          /\ al.aligned_texts[2][g + 1] # al.aligned_texts[1][g + 1]
          /\ ~DiffersWithoutIds(g)
          /\ ~InList(g, al.differing_to_global)

\* ----------------------------------------------------------------------
\* extract_comparison_data to its end: _create_merge_document after the
\* differencing. The merged document's text and tag list are text and tags.
\* ----------------------------------------------------------------------

\* _create_merge_document: the document's text is the joined _common_text;
\* the document is made from that text alone
CreateMergeDocument ==
    /\ al.phase = "differenced"
    /\ al' = [al EXCEPT !.phase = "merged"]
    /\ text' = JoinWith(al.common_text, Separator)
    /\ tags' = <<>>
    /\ UNCHANGED <<heap, nextUuid, last, cm, cmd, rt>>

NextSetup == AlignSimilarTexts \/ ExtractDifferingTaggedSentences \/ CreateMergeDocument

SpecSetup == InitAlign /\ [][NextSetup]_vars

RenditionIds == {<<"1">>, <<"2">>, <<"1", "0">>}

\* the reference values; <<>> stands for a tag without the attribute
RenditionRefs == {<<>>, <<"t", "1">>, <<"t", "2">>}

\* a sentence with a T tag and an E tag as an annotator's file holds it
TaggedRendition(p) ==
    Markup("T", p.id, p.content) \o <<" ", "x", " ">>
    \o (IF p.ref = <<>> THEN Markup("E", p.other_id, <<"b">>)
        ELSE MarkupWithReference("E", p.other_id, p.ref, <<"b">>))

RenditionChoices ==
    [id : RenditionIds, other_id : RenditionIds, ref : RenditionRefs,
     content : {<<"a">>, <<"c">>}]

InitRenditions ==
    /\ \E p1 \in RenditionChoices, p2 \in RenditionChoices :
         al = [phase |-> "renditions", first |-> p1, second |-> p2,
               sentences |-> <<TaggedRendition(p1), TaggedRendition(p2)>>,
               cleaned_sentences |-> <<>>,
               comparison_sentences |-> <<>>, differing_to_global |-> <<>>]
    /\ heap = <<>> /\ text = <<>> /\ tags = <<>> /\ nextUuid = 1
    /\ last = NoLast /\ cm = Idle /\ cmd = Idle /\ rt = Idle

\* remove_ids_from_tags on both renditions
RemoveIdsFromTags ==
    /\ al.phase = "renditions"
    /\ al' = [al EXCEPT !.phase = "cleaned",
                        !.cleaned_sentences =
                            [k \in 1..2 |-> remove_ids_from_tags(al.sentences[k])]]
    /\ UNCHANGED <<heap, text, tags, nextUuid, last, cm, cmd, rt>>

\* the differencing of two texts that consist of the one sentence
DifferenceRenditions ==
    /\ al.phase = "cleaned"
    /\ LET Then(d) ==
               al' = [al EXCEPT !.phase = "differenced",
                                !.comparison_sentences = d.comparison_sentences,
                                !.differing_to_global = d.differing_to_global]
       IN Then(_extract_differing_tagged_sentences(
                   << delete_all_tags_from_text(al.sentences[1]) >>,
                   << <<al.sentences[1]>>, <<al.sentences[2]>> >>,
                   << al.sentences[1] >>))
    /\ UNCHANGED <<heap, text, tags, nextUuid, last, cm, cmd, rt>>

NextRenditions == RemoveIdsFromTags \/ DifferenceRenditions

SpecRenditions == InitRenditions /\ [][NextRenditions]_vars

\* the two renditions differ at most in the values of ID and IDREF attributes
DifferInIdValuesOnly ==
    /\ al.first.content = al.second.content
    /\ (al.first.ref = <<>>) <=> (al.second.ref = <<>>)

\* C32: two annotators' renditions of a sentence that differ only in the
\* values of ID or IDREF attributes of their tags are identical after
\* remove_ids_from_tags and make no comparison unit.
IdValuesMakeNoUnit ==
    DifferInIdValuesOnly =>
       /\ al.phase \in {"cleaned", "differenced"} =>
             al.cleaned_sentences[1] = al.cleaned_sentences[2]
       /\ al.phase = "differenced" =>
             /\ al.differing_to_global = <<>>
             /\ \A d \in 1..3 : al.comparison_sentences[d] = <<>>

\* renditions whose ID and IDREF values all differ, one ID longer than the
\* other, have been differenced
RenditionsWithOtherIdsDifferenced ==
    /\ al.phase = "differenced"
    /\ DifferInIdValuesOnly
    /\ al.first.id # al.second.id
    /\ Len(al.first.other_id) # Len(al.second.other_id)
    /\ al.first.ref # <<>> /\ al.first.ref # al.second.ref

\* C33: after execute() and then undo() of an adopt command every source
\* tag's position is the one it had before execute().
UndoRestoresSourcePositions ==
    [][(last'.op = "undo" /\ last'.ok /\ ~cmd.undo[Len(cmd.undo)].undone) =>
          LET command == cmd.undo[Len(cmd.undo)]
          IN \A n \in 1..Len(command.tag_models) :
                heap'[command.tag_models[n]].position
                  = command.before.positions[n]]_vars

\* the uuids of the tags of a tag list
UuidsOf(h, tgs) == {h[tgs[n]].uuid : n \in 1..Len(tgs)}

\* C34: the tags that redo() inserts into the merged document carry uuids
\* that no tag was given before, neither by the execute() or a redo() of the
\* command nor as a source tag: they are generated by this redo(), and a uuid
\* once removed from the merged document is not assigned again.
RedoInsertsFreshUuids ==
    [][(last'.op = "redo" /\ ~cmd.redo[Len(cmd.redo)].redone) =>
          /\ \A u \in UuidsOf(heap', tags') \ UuidsOf(heap, tags) : u >= nextUuid
          /\ \A n \in 1..Len(cmd'.undo[Len(cmd'.undo)].inserted_uuids) :
                cmd'.undo[Len(cmd'.undo)].inserted_uuids[n] >= nextUuid]_vars

\* C35: undo() and redo() of an adopt command clear and set the adoption
\* flag of the unit that was current when execute() ran, and redo() puts the
\* tags back into that unit's sentence, however the current index was moved
\* in between.
UndoRedoKeepTheirUnit ==
    [][/\ (last'.op = "undo" /\ ~cmd.undo[Len(cmd.undo)].undone) =>
             LET unit == cmd.undo[Len(cmd.undo)].before.unit
             IN /\ last'.ok
                /\ cm'.adopted_flags = [cm.adopted_flags EXCEPT ![unit + 1] = FALSE]
       /\ (last'.op = "redo" /\ ~cmd.redo[Len(cmd.redo)].redone) =>
             LET command == cmd.redo[Len(cmd.redo)]
                 unit == command.before.unit
                 global_index == DifferingToGlobal[unit + 1]
                 old == Split(text, Separator)
                 new == Split(text', Separator)
             IN /\ last'.ok
                /\ cm'.adopted_flags = [cm.adopted_flags EXCEPT ![unit + 1] = TRUE]
                /\ Len(new) = Len(old)
                /\ \A g \in 1..Len(old) :
                      g # global_index + 1 =>
                         remove_ids_from_tags(new[g]) = remove_ids_from_tags(old[g])
                /\ delete_all_tags_from_text(new[global_index + 1])
                     = delete_all_tags_from_text(old[global_index + 1])
                /\ Len(_extract_tags_from_text(new[global_index + 1]).tags)
                     = Len(_extract_tags_from_text(old[global_index + 1]).tags)
                       + Len(command.tag_models)]_vars

\* ----------------------------------------------------------------------
\* TagManager with add_tag and delete_tag only
\* ----------------------------------------------------------------------

NextAddDelete == AddTag \/ DeleteTag

SpecAddDelete == Init /\ [][NextAddDelete]_vars

\* C36: after any addTag or deleteTag, for every tag t of the document and
\* every attribute a under which t holds a resolved reference, t's stored
\* value of a is the current id of the referenced tag, and t's markup in the
\* document text shows that value.
ReferenceAttributesFollowIds ==
    last.op \in {"add", "delete"} =>
       \A j \in 1..Len(tags) :
          LET t == heap[tags[j]]
          IN /\ \A n \in 1..Len(t.references) :
                   t.references[n][2].kind = "tag" =>
                      DictGet(t.attributes, t.references[n][1], NoId)
                        = get_id(heap[t.references[n][2].oid])
             /\ t.references # <<>> => FindSub(text, TagStr(t), 0) # -1

\* the merged document's sentence of comparison unit u (counted from 1)
MergedSentenceOf(u) == Split(text, Separator)[DifferingToGlobal[u] + 1]

\* C37: after any sequence of adopt, undo, redo, next-sentence and
\* previous-sentence operations on the comparison view, the flag of a unit is
\* True exactly when the merged document holds the tags that an adoption of
\* that unit inserted, and it never holds the tags of two adoptions of one
\* unit: the unit's sentence is one annotator's rendition up to IDs when the
\* flag is True, and the raw sentence when it is False.
FlagsTellAdoptedUnits ==
    \A u \in 1..Len(DifferingToGlobal) :
       IF cm.adopted_flags[u]
       THEN \E d \in 2..Len(ComparisonSentences) :
               remove_ids_from_tags(MergedSentenceOf(u))
                 = remove_ids_from_tags(ComparisonSentences[d][u])
       ELSE MergedSentenceOf(u) = ComparisonSentences[1][u]

\* ----------------------------------------------------------------------
\* execute() of an adoption of a sentence with two tags.  cmd holds the
\* source sentence, its unit and the command; the merged document is text
\* and tags.
\* ----------------------------------------------------------------------

\* the numbers an annotator's file has reached in its IDs at the sentence
SourceIdNumbers == {1, 9, 10}

\* an annotator's rendition of unit u with a tag on each of its two
\* characters; tags of one type are numbered one after the other
TwoTagRendition(u, type1, type2, n1, n2) ==
    Markup(type1, IntToStr(n1), <<MergedSentences[u + 1][1]>>)
    \o Markup(type2, IntToStr(IF type2 = type1 THEN n1 + 1 ELSE n2),
              <<MergedSentences[u + 1][2]>>)

InitExecute ==
    /\ \E u \in 0..(Len(DifferingToGlobal) - 1), type1 \in TagTypes, type2 \in TagTypes,
          n1 \in SourceIdNumbers, n2 \in SourceIdNumbers :
         LET Loaded(sentence, made) ==
                 /\ heap = made.heap
                 /\ cm = [current_index |-> u,
                          adopted_flags |-> [d \in 1..Len(ComparisonSentences) |-> FALSE],
                          docs |-> <<made.oids>>]
                 /\ cmd = [phase |-> "new", unit |-> u, sentence |-> sentence,
                           ok |-> TRUE, err |-> "", inserted |-> 0]
             Extracted(sentence) ==
                 Loaded(sentence,
                        MakeTags(<<>>, _extract_tags_from_text(sentence).tags, 1, <<>>))
         IN /\ type2 = type1 => n2 = n1
            /\ Extracted(TwoTagRendition(u, type1, type2, n1, n2))
    /\ text = JoinWith(MergedSentences, Separator)
    /\ tags = <<>>
    /\ nextUuid = 1
    /\ last = NoLast /\ rt = Idle /\ al = Idle

\* the other unit is adopted before: the first annotator's rendition of it,
\* which has one tag
AdoptOtherUnit ==
    /\ cmd.phase = "new"
    /\ LET other == 1 - cmd.unit
           c == [cm EXCEPT !.current_index = other]
           Executed(r) ==
               /\ r.ok
               /\ heap' = r.heap /\ text' = r.text /\ tags' = r.tags
               /\ nextUuid' = r.nextUuid
               /\ cm' = [r.cm EXCEPT !.current_index = cmd.unit]
               /\ cmd' = [cmd EXCEPT !.phase = "prepared"]
           Made(made) ==
               Executed(execute(NewCommand(made.oids, c, made.heap, text, tags),
                                made.heap, text, tags, c, nextUuid))
       IN Made(MakeTags(heap, _extract_tags_from_text(
                                  ComparisonSentences[2][other + 1]).tags, 1, <<>>))
    /\ UNCHANGED <<last, rt, al>>

\* perform_adopt_annotation's command for the sentence, executed
ExecuteAdoption ==
    /\ cmd.phase \in {"new", "prepared"}
    /\ LET Executed(r) ==
               /\ heap' = r.heap /\ text' = r.text /\ tags' = r.tags
               /\ nextUuid' = r.nextUuid
               /\ cm' = r.cm
               /\ cmd' = [cmd EXCEPT !.phase = "executed", !.ok = r.ok, !.err = r.err,
                                     !.inserted = Len(r.command.inserted_uuids)]
       IN Executed(execute(NewCommand(cm.docs[1], cm, heap, text, tags),
                           heap, text, tags, cm, nextUuid))
    /\ UNCHANGED <<last, rt, al>>

NextExecute == AdoptOtherUnit \/ ExecuteAdoption

SpecExecute == InitExecute /\ [][NextExecute]_vars

\* C38: executing an adoption whose source sentence carries two or more tags
\* succeeds, and afterwards the merged document's sentence of the unit is the
\* annotator's tagged sentence up to ID values, also when the renumbering in
\* the merged document gives an inserted tag an ID of another length than it
\* has in the source sentence.
AdoptionOfSeveralTagsSucceeds ==
    cmd.phase = "executed" =>
       /\ cmd.ok
       /\ remove_ids_from_tags(MergedSentenceOf(cmd.unit + 1))
            = remove_ids_from_tags(cmd.sentence)

\* ----------------------------------------------------------------------
\* TagManager.add_tag with tag data whose text need not be the document's
\* text at the position
\* ----------------------------------------------------------------------

\* the texts the tag data may carry
AnyTagTexts == {<<BaseText[n]>> : n \in 1..Len(BaseText)}

\* TagManager.add_tag called with any text for the position
AddTagWithAnyText ==
    /\ Len(heap) < MaxObjs
    /\ \E tag_type \in TagTypes, position \in PlainPositions(text),
          tag_text \in AnyTagTexts :
         \E ref \in RefChoices(tag_type, heap, tags) :
           LET oid == Len(heap) + 1
               data == TagData(tag_type, NoId, ref, position, tag_text)
               Added(r) ==
                   /\ Apply(r)
                   /\ nextUuid' = nextUuid + 1
                   /\ last' = Outcome("add", r, oid, nextUuid, NoId)
           IN Added(add_tag(Append(heap, data), text, tags, oid, nextUuid))
    /\ UNCHANGED <<cm, cmd, rt, al>>

NextAddAny == AddTag \/ DeleteTag \/ AddTagWithAnyText

SpecAddAny == Init /\ [][NextAddAny]_vars

\* C39: if addTag fails because the document text at the given position is
\* not the tag's text, the document's tag list, its text, the tags' positions
\* and the reference counts of all tags are what they were before the call.
FailedAddChangesNothing ==
    [][(last'.op = "add" /\ last'.err = "text_mismatch") =>
          /\ text' = text
          /\ Len(tags') = Len(tags)
          /\ TagList(heap', tags') = TagList(heap, tags)]_vars

====
